---- MODULE Spec2Model ----
(***************************************************************************)
(* Stock ledger, document numbering and payment / stock-reduction core of  *)
(* the ProGestock back office, modelled from the Django sources.           *)
(*                                                                         *)
(* Database model.  The deployment database is PostgreSQL at READ          *)
(* COMMITTED (Django's default).  A statement outside transaction.atomic   *)
(* is its own transaction (autocommit) and is one step of the model.       *)
(* Inside transaction.atomic a handler reads committed rows, buffers its   *)
(* writes, holds a row lock on every row it has written and publishes the  *)
(* writes in one commit step.  Model.save() writes the in-memory values of *)
(* all columns (UPDATE ... SET quantity = <value>), never an increment.    *)
(* Money is counted in whole currency units.                               *)
(***************************************************************************)
EXTENDS Integers, Sequences, FiniteSets, TLC

VARIABLES
    stock,      \* inventory_stock rows: location -> row, or <<product, location>> -> row
    log,        \* auditing LogEntry table, in commit order
    st,         \* stock-ledger and purchasing request handlers; the Product row
    invoices,   \* sales_invoice rows, indexed by id
    invlines,   \* sales_invoicelineitem rows of each invoice
    payments,   \* sales_payment rows, in insertion order
    quotes,     \* sales_quote rows, indexed by id
    qlines,     \* sales_quotelineitem rows of each quote
    clock,      \* timezone.now(), strictly increasing between two readings
    pr,         \* sales request handlers (create / convert / record payment)
    docs,       \* number columns of the document tables; the purchase order
    nr          \* document-creating request handlers

stockVars == <<stock, log, st>>
salesVars == <<invoices, invlines, payments, quotes, qlines, clock, pr>>
numVars == <<docs, nr>>
vars == <<stock, log, st, invoices, invlines, payments, quotes, qlines, clock, pr, docs, nr>>

(***************************************************************************)
(* Bounds                                                                  *)
(***************************************************************************)
MaxStockReq == 3        \* stock-ledger requests served in one behaviour
MaxInFlight == 2        \* request handlers running at the same time
MaxQty == 2             \* largest quantity a request may carry
MaxPayReq == 3          \* sales requests served in one behaviour
MaxAmount == 2          \* largest amount a RecordPayment request may carry

Locations == {"A", "B"}
StockReqs == 1..MaxStockReq
AdjustActions == {"add", "remove", "set"}

(***************************************************************************)
(* Stock table and audit log                                               *)
(***************************************************************************)
NoRow == [exists |-> FALSE, quantity |-> 0]

Row(q) == [exists |-> TRUE, quantity |-> q]

\* Quantity of the product at a location; no row counts as nothing in stock.
Qty(l) == IF stock[l].exists THEN stock[l].quantity ELSE 0

LogEntry(action_type, location, to_location, quantity, old_q, new_q, to_old, to_new, invoice) ==
    [action_type |-> action_type, location |-> location, to_location |-> to_location,
     quantity |-> quantity, old_quantity |-> old_q, new_quantity |-> new_q,
     to_old_quantity |-> to_old, to_new_quantity |-> to_new, invoice |-> invoice]

EmptyWrites == [l \in {} |-> 0]

(***************************************************************************)
(* Stock-ledger request handlers                                           *)
(***************************************************************************)
StockIdle ==
    [pc |-> "new", kind |-> "none", action |-> "none", location |-> "A", to_location |-> "A",
     quantity |-> 0, old_quantity |-> 0, new_quantity |-> 0, to_old_quantity |-> 0,
     reads |-> EmptyWrites, writes |-> EmptyWrites, entries |-> <<>>, resp |-> "none"]

StockInFlight(r) == st[r].pc \notin {"new", "done"}

StockRunning == {r \in StockReqs : StockInFlight(r)}

\* Requests are numbered in their order of arrival, and a worker must be free.
StockAccept(r, cap) ==
    /\ st[r].pc = "new"
    /\ \A o \in StockReqs : o < r => st[o].pc # "new"
    /\ Cardinality(StockRunning) < cap

\* A row is locked against r when another open transaction has written it.
Locked(l, r) == \E o \in StockReqs \ {r} : StockInFlight(o) /\ l \in DOMAIN st[o].writes

\* Stock.objects.get_or_create: returns the committed row, or inserts one;
\* the insert waits on the unique index while another transaction holds an
\* uncommitted insert of the same (product, location).
GetOrCreateEnabled(l, r) == stock[l].exists \/ l \in DOMAIN st[r].writes \/ ~Locked(l, r)

\* The handler's view of a row: its own write, else the committed row.
ReadQty(l, r) == IF l \in DOMAIN st[r].writes THEN st[r].writes[l] ELSE Qty(l)

PutWrite(w, l, q) == [x \in (DOMAIN w) \cup {l} |-> IF x = l THEN q ELSE w[x]]

CreatedWrites(w, l) == IF stock[l].exists \/ l \in DOMAIN w THEN w ELSE PutWrite(w, l, 0)

\* Mutant of AdjustedQuantity: remove adds instead of subtracting.
AdjustedQuantityRemoveAdds(action, old, quantity) ==
    IF action = "set" THEN quantity ELSE old + quantity

\* StockAdjustmentView.post: the new quantity for each action.
AdjustedQuantity(action, old, quantity) ==
    CASE action = "add" -> old + quantity
      [] action = "remove" -> old - quantity
      [] action = "set" -> quantity

AdjustActionType(action) ==
    CASE action = "add" -> "STOCK_ADDED"
      [] action = "remove" -> "STOCK_REMOVED"
      [] action = "set" -> "STOCK_SET"

\* Mutant of InsufficientForRemove: the guard is off by one.
InsufficientForRemoveOffByOne(action, old, quantity) ==
    action = "remove" /\ old + 1 < quantity

\* StockAdjustmentView.post: the InsufficientStock guard of action remove.
InsufficientForRemove(action, old, quantity) ==
    action = "remove" /\ old < quantity

\* Publishing a transaction: every buffered row write and log entry at once.
CommittedStock(w) == [l \in Locations |-> IF l \in DOMAIN w THEN Row(w[l]) ELSE stock[l]]

\* StockAdjustmentView.post up to the InsufficientStock check: validation,
\* get_or_create and the computation on the in-memory row.  A rejected
\* remove returns a Response, so the transaction commits what get_or_create
\* inserted.
AdjustRead(r, cap, l, action, quantity) ==
    /\ StockAccept(r, cap)
    /\ GetOrCreateEnabled(l, r)
    /\ LET old == ReadQty(l, r)
           w == CreatedWrites(EmptyWrites, l)
           base == [st[r] EXCEPT !.kind = "adjust", !.action = action, !.location = l,
                                 !.quantity = quantity, !.old_quantity = old,
                                 !.reads = PutWrite(EmptyWrites, l, old)]
       IN IF InsufficientForRemove(action, old, quantity)
          THEN /\ st' = [st EXCEPT ![r] = [base EXCEPT !.pc = "done", !.resp = "InsufficientStock"]]
               /\ stock' = CommittedStock(w)
               /\ UNCHANGED log
          ELSE /\ st' = [st EXCEPT ![r] = [base EXCEPT !.pc = "adjust_save", !.writes = w,
                                   !.new_quantity = AdjustedQuantity(action, old, quantity)]]
               /\ UNCHANGED <<stock, log>>
    /\ UNCHANGED <<salesVars, numVars>>

\* stock.save() and LogEntry.objects.create of StockAdjustmentView.post.
AdjustSave(r) ==
    /\ st[r].pc = "adjust_save"
    /\ ~Locked(st[r].location, r)
    /\ st' = [st EXCEPT ![r].pc = "commit",
                        ![r].writes = PutWrite(st[r].writes, st[r].location, st[r].new_quantity),
                        ![r].entries = <<LogEntry(AdjustActionType(st[r].action), st[r].location,
                                                  st[r].location, st[r].quantity, st[r].old_quantity,
                                                  st[r].new_quantity, 0, 0, 0)>>]
    /\ UNCHANGED <<stock, log>>
    /\ UNCHANGED <<salesVars, numVars>>

\* StockTransferSerializer.validate, run by StockTransferView.post.
TransferValidate(r, cap, from, to, quantity) ==
    /\ StockAccept(r, cap)
    /\ LET base == [st[r] EXCEPT !.kind = "transfer", !.location = from, !.to_location = to,
                                 !.quantity = quantity]
           code == IF from = to THEN "SameLocation"
                   ELSE IF ~stock[from].exists THEN "NoStockRecord"
                   ELSE IF stock[from].quantity < quantity THEN "InsufficientStock"
                   ELSE "valid"
       IN st' = [st EXCEPT ![r] =
                    IF code = "valid"
                    THEN [base EXCEPT !.pc = "transfer_debit", !.old_quantity = stock[from].quantity,
                                      !.reads = PutWrite(EmptyWrites, from, stock[from].quantity)]
                    ELSE [base EXCEPT !.pc = "done", !.resp = code]]
    /\ UNCHANGED <<stock, log>>
    /\ UNCHANGED <<salesVars, numVars>>

\* Mutant of TransferDebit's write: the debit is published at once.
DebitVisibleAtOnce(r, q) == [stock EXCEPT ![st[r].location] = Row(q)]

\* The committed table while a transfer has only buffered its debit.
DebitVisible(r, q) == stock

\* source_stock.quantity -= quantity; source_stock.save()
TransferDebit(r) ==
    /\ st[r].pc = "transfer_debit"
    /\ ~Locked(st[r].location, r)
    /\ LET q == st[r].old_quantity - st[r].quantity
       IN /\ st' = [st EXCEPT ![r].pc = "transfer_dest", ![r].new_quantity = q,
                              ![r].writes = PutWrite(st[r].writes, st[r].location, q)]
          /\ stock' = DebitVisible(r, q)
    /\ UNCHANGED log
    /\ UNCHANGED <<salesVars, numVars>>

\* Stock.objects.get_or_create for the destination row.
TransferDestRead(r) ==
    /\ st[r].pc = "transfer_dest"
    /\ GetOrCreateEnabled(st[r].to_location, r)
    /\ LET old == ReadQty(st[r].to_location, r)
       IN st' = [st EXCEPT ![r].pc = "transfer_credit", ![r].to_old_quantity = old,
                           ![r].reads = PutWrite(st[r].reads, st[r].to_location, old),
                           ![r].writes = CreatedWrites(st[r].writes, st[r].to_location)]
    /\ UNCHANGED <<stock, log>>
    /\ UNCHANGED <<salesVars, numVars>>

\* dest_stock.quantity += quantity; dest_stock.save(); LogEntry.objects.create
TransferCredit(r) ==
    /\ st[r].pc = "transfer_credit"
    /\ ~Locked(st[r].to_location, r)
    /\ LET q == st[r].to_old_quantity + st[r].quantity
       IN st' = [st EXCEPT ![r].pc = "commit",
                           ![r].writes = PutWrite(st[r].writes, st[r].to_location, q),
                           ![r].entries = <<LogEntry("STOCK_TRANSFERRED", st[r].location,
                                                     st[r].to_location, st[r].quantity,
                                                     st[r].old_quantity, st[r].new_quantity,
                                                     st[r].to_old_quantity, q, 0)>>]
    /\ UNCHANGED <<stock, log>>
    /\ UNCHANGED <<salesVars, numVars>>

\* Leaving @transaction.atomic with a 200 response.
StockCommit(r) ==
    /\ st[r].pc = "commit"
    /\ stock' = CommittedStock(st[r].writes)
    /\ log' = log \o st[r].entries
    /\ st' = [st EXCEPT ![r].pc = "done", ![r].resp = "OK", ![r].writes = EmptyWrites]
    /\ UNCHANGED <<salesVars, numVars>>

\* The next statement of r waits for a row lock held by another transaction.
StockBlocked(r) ==
    \/ st[r].pc \in {"adjust_save", "transfer_debit"} /\ Locked(st[r].location, r)
    \/ st[r].pc = "transfer_credit" /\ Locked(st[r].to_location, r)
    \/ st[r].pc = "transfer_dest" /\ ~GetOrCreateEnabled(st[r].to_location, r)

\* A lock wait ended by the database (deadlock detected, lock timeout): the
\* exception leaves @transaction.atomic, which rolls the transaction back.
StockAbort(r) ==
    /\ StockBlocked(r)
    /\ st' = [st EXCEPT ![r].pc = "done", ![r].resp = "ServerError", ![r].writes = EmptyWrites,
                        ![r].entries = <<>>]
    /\ UNCHANGED <<stock, log>>
    /\ UNCHANGED <<salesVars, numVars>>

\* No sales document exists and no sales request is served.
SalesUnused ==
    /\ invoices = <<>>
    /\ invlines = <<>>
    /\ payments = <<>>
    /\ quotes = <<>>
    /\ qlines = <<>>
    /\ clock = 1
    /\ pr = <<>>

\* No document is being numbered.
NumberingUnused ==
    /\ docs = <<>>
    /\ nr = <<>>

StockInit ==
    /\ stock = [l \in Locations |-> NoRow]
    /\ log = <<>>
    /\ st = [r \in StockReqs |-> StockIdle]
    /\ SalesUnused
    /\ NumberingUnused

StockStep(r, cap) ==
    \/ \E l \in Locations, a \in AdjustActions, q \in 0..MaxQty : AdjustRead(r, cap, l, a, q)
    \/ AdjustSave(r)
    \/ \E from \in Locations, to \in Locations, q \in 1..MaxQty : TransferValidate(r, cap, from, to, q)
    \/ TransferDebit(r)
    \/ TransferDestRead(r)
    \/ TransferCredit(r)
    \/ StockCommit(r)

\* Handlers run in parallel (thread pool of MaxInFlight workers).
StockNext == \E r \in StockReqs : StockStep(r, MaxInFlight) \/ StockAbort(r)

\* One handler at a time: each call runs to completion before the next.
StockNextSeq == \E r \in StockReqs : StockStep(r, 1)

SpecStock == StockInit /\ [][StockNext]_vars

SpecStockSeq == StockInit /\ [][StockNextSeq]_vars

(***************************************************************************)
(* Sales documents: tables and in-memory instances                         *)
(***************************************************************************)
PayReqs == 1..MaxPayReq
InvoiceStatuses == {"DRAFT", "UNPAID", "PAID", "OVERDUE", "PARTIALLY_PAID"}

\* date.today(), the day every due date is compared with.
Today == 0

\* Due dates a client may submit: yesterday, or thirty days from now.
DueDates == {Today - 1, Today + 30}

\* company.sales_tax_rate, copied into tax_rate by perform_create.
CompanyTaxRate == 0

\* Price of the product on every line of the model's documents.
UnitPrice == 2

\* Stock on hand when the sales requests start.
InitialStock == [l \in Locations |-> IF l = "A" THEN Row(2) ELSE Row(1)]

\* The product sold, as the catalogue holds it: Product.name, sku and price.
ProductRow(name, sku, price) == [name |-> name, sku |-> sku, price |-> price]

TheProduct == ProductRow("widget", "W-1", UnitPrice)

\* A decimal column keeps two places; the model counts in whole units and
\* the database rounds n / d to the nearest unit, halves upwards.
RoundHalfUp(n, d) == (2 * n + d) \div (2 * d)

\* InvoiceLineItem.save / QuoteLineItem.save: the stored line_total.
LineTotal(quantity, unit_price, discount_type, discount_value) ==
    LET base_total == quantity * unit_price
    IN IF discount_type = "PERCENTAGE"
       THEN RoundHalfUp(base_total * (100 - discount_value), 100)
       ELSE base_total - discount_value

\* A stored line item of the product, without discount.
Line(quantity, unit_price) ==
    [product_name |-> TheProduct.name, product_sku |-> TheProduct.sku,
     quantity |-> quantity, unit_price |-> unit_price, discount_type |-> "PERCENTAGE",
     discount_value |-> 0, line_total |-> LineTotal(quantity, unit_price, "PERCENTAGE", 0)]

\* A line item as a client submits it: product_name, product_sku and
\* line_total are read-only fields of the line item serializers.
SubmittedLine(quantity, unit_price, discount_type, discount_value) ==
    [product_name |-> "", product_sku |-> "", quantity |-> quantity, unit_price |-> unit_price,
     discount_type |-> discount_type, discount_value |-> discount_value, line_total |-> 0]

\* QuoteLineItem.save / InvoiceLineItem.save with product p: a field that
\* is not set ("if not self.x") is taken from the product, then the line
\* total is computed.
SavedLine(l, p) ==
    LET unit_price == IF l.unit_price = 0 THEN p.price ELSE l.unit_price
    IN [l EXCEPT !.product_name = IF l.product_name = "" THEN p.name ELSE l.product_name,
                 !.product_sku = IF l.product_sku = "" THEN p.sku ELSE l.product_sku,
                 !.unit_price = unit_price,
                 !.line_total = LineTotal(l.quantity, unit_price, l.discount_type,
                                          l.discount_value)]

SavedLines(ls, p) == [i \in DOMAIN ls |-> SavedLine(ls[i], p)]

RECURSIVE SumLineTotals(_)
SumLineTotals(ls) == IF ls = <<>> THEN 0 ELSE Head(ls).line_total + SumLineTotals(Tail(ls))

RECURSIVE SumLineQuantities(_)
SumLineQuantities(ls) == IF ls = <<>> THEN 0 ELSE Head(ls).quantity + SumLineQuantities(Tail(ls))

\* Mutant of WithTotals: the tax amount is left as it was.
WithTotalsKeepingTax(m, ls) ==
    LET sub == SumLineTotals(ls)
    IN [m EXCEPT !.subtotal = sub, !.total_amount = sub + m.tax_amount]

\* Invoice.calculate_totals / Quote.calculate_totals on the in-memory instance.
WithTotals(m, ls) ==
    LET sub == SumLineTotals(ls)
        tax == RoundHalfUp(sub * m.tax_rate, 100)
    IN [m EXCEPT !.subtotal = sub, !.tax_amount = tax, !.total_amount = sub + tax]

\* A new Invoice instance with the model's field defaults (paid_date 0 = NULL).
NewInvoice(number, quote, status, due_date, tax_rate) ==
    [company |-> "acme", invoice_number |-> number, quote |-> quote, status |-> status,
     due_date |-> due_date, paid_date |-> 0, subtotal |-> 0, tax_rate |-> tax_rate,
     tax_amount |-> 0, total_amount |-> 0, amount_paid |-> 0, stock_reduced |-> FALSE]

NewQuote(number, status, tax_rate) ==
    [company |-> "acme", quote_number |-> number, status |-> status, subtotal |-> 0,
     tax_rate |-> tax_rate, tax_amount |-> 0, total_amount |-> 0]

\* Invoice.amount_due
AmountDue(m) == m.total_amount - m.amount_paid

\* sum(payment.amount for payment in self.invoice.payments.all())
RECURSIVE SumPayments(_, _)
SumPayments(n, inv) ==
    IF n = 0 THEN 0
    ELSE (IF payments[n].invoice = inv THEN payments[n].amount ELSE 0) + SumPayments(n - 1, inv)

\* Mutant of UpdateStatus: the due date is never consulted.
UpdateStatusNeverOverdue(m, now) ==
    IF m.status = "DRAFT" /\ m.amount_paid = 0
    THEN [m |-> m, saved |-> FALSE]
    ELSE IF m.amount_paid = 0
    THEN [m |-> [m EXCEPT !.status = "UNPAID"], saved |-> TRUE]
    ELSE IF m.amount_paid >= m.total_amount
    THEN [m |-> [m EXCEPT !.status = "PAID",
                          !.paid_date = IF m.status # "PAID" THEN now ELSE m.paid_date],
          saved |-> TRUE]
    ELSE [m |-> [m EXCEPT !.status = "PARTIALLY_PAID"], saved |-> TRUE]

\* Invoice.update_status up to its self.save(): the derived status and
\* paid_date, and whether the method reached the save (no early return).
UpdateStatus(m, now) ==
    IF m.status = "DRAFT" /\ m.amount_paid = 0
    THEN [m |-> m, saved |-> FALSE]
    ELSE IF m.amount_paid = 0
    THEN IF m.status = "DRAFT"
         THEN [m |-> m, saved |-> FALSE]
         ELSE [m |-> [m EXCEPT !.status = IF m.due_date < Today THEN "OVERDUE" ELSE "UNPAID"],
               saved |-> TRUE]
    ELSE IF m.amount_paid >= m.total_amount
    THEN [m |-> [m EXCEPT !.status = "PAID",
                          !.paid_date = IF m.status # "PAID" THEN now ELSE m.paid_date],
          saved |-> TRUE]
    ELSE [m |-> [m EXCEPT !.status = IF m.due_date < Today THEN "OVERDUE" ELSE "PARTIALLY_PAID"],
          saved |-> TRUE]

(***************************************************************************)
(* Sales request handlers.  pc is the stack of pending database steps of   *)
(* the handler; steps that touch no table run with the step before them.   *)
(***************************************************************************)
PayIdle ==
    [phase |-> "new", kind |-> "none", pc |-> <<>>, inv |-> 0, quote |-> 0, amount |-> 0,
     m |-> NewInvoice(0, 0, "DRAFT", 0, 0), q |-> NewQuote(0, "DRAFT", 0),
     loaded_reduced |-> FALSE, old_status |-> "none", old_db_status |-> "none",
     sub |-> <<>>, lines |-> <<>>, line |-> 0, snapshot |-> <<>>, k |-> 0, remaining |-> 0, resp |-> "none"]

PayRunning == {r \in PayReqs : pr[r].phase = "run"}

PayQuiescent == PayRunning = {}

\* Requests are numbered in their order of arrival, and a worker must be free.
PayAccept(r, cap) ==
    /\ pr[r].phase = "new"
    /\ \A o \in PayReqs : o < r => pr[o].phase # "new"
    /\ Cardinality(PayRunning) < cap

\* Invoice.reduce_stock entered: it returns at once when the in-memory
\* stock_reduced is already set.
CallReduce(l, rest) == IF l.m.stock_reduced THEN rest ELSE <<"reduce_read">> \o rest

\* Invoice.save: stock is reduced after the write when the stored status
\* was not PAID, the saved one is, and stock_reduced is not set.
SaveReduces(l) == l.old_db_status # "PAID" /\ l.m.status = "PAID" /\ ~l.m.stock_reduced

\* Invoice.update_status after its self.save().
StatusReduces(l) == l.m.status = "PAID" /\ l.old_status # "PAID" /\ ~l.m.stock_reduced

RECURSIVE Resume(_, _)
Resume(s, l) ==
    IF s = <<>> THEN s
    ELSE IF Head(s) = "us_after"
    THEN IF StatusReduces(l) THEN Resume(CallReduce(l, Tail(s)), l) ELSE Resume(Tail(s), l)
    ELSE IF Head(s) = "reduce_call"
    THEN Resume(CallReduce(l, Tail(s)), l)
    ELSE s

\* The handler after a step: pending in-memory steps are run, and a handler
\* with nothing left returns its 200 / 201 response.
Settle(l) ==
    LET s == Resume(l.pc, l)
    IN IF s = <<>> THEN [l EXCEPT !.pc = s, !.phase = "done", !.resp = "OK"]
       ELSE [l EXCEPT !.pc = s]

At(r, label) == pr[r].phase = "run" /\ pr[r].pc # <<>> /\ Head(pr[r].pc) = label

(***************************************************************************)
(* Invoice.save and Invoice.reduce_stock, as run by every sales handler    *)
(***************************************************************************)
\* Invoice.save: old_instance = Invoice.objects.get(pk=self.pk)
InvoiceSaveRead(r) ==
    /\ At(r, "save_read")
    /\ pr' = [pr EXCEPT ![r].old_db_status = invoices[pr[r].inv].status,
                        ![r].pc = <<"save_write">> \o Tail(pr[r].pc)]
    /\ UNCHANGED <<numVars, stock, log, st, invoices, invlines, payments, quotes, qlines, clock>>

\* Invoice.save: super().save() writes every column from the instance, then
\* reduce_stock runs if this save is the transition to PAID.
InvoiceSaveWrite(r) ==
    /\ At(r, "save_write")
    /\ invoices' = [invoices EXCEPT ![pr[r].inv] = pr[r].m]
    /\ LET l == pr[r]
           rest == Tail(l.pc)
       IN pr' = [pr EXCEPT ![r] =
                    Settle([l EXCEPT !.pc = IF SaveReduces(l) THEN CallReduce(l, rest) ELSE rest])]
    /\ UNCHANGED <<numVars, stock, log, st, invlines, payments, quotes, qlines, clock>>

ExistingLocations == {l \in Locations : stock[l].exists}

\* Stock.objects.filter(product=..).order_by('-quantity'): the rows as read,
\* highest quantity first; rows of equal quantity come in any order.
StockSnapshots ==
    LET n == Cardinality(ExistingLocations)
        orders == {s \in [1..n -> ExistingLocations] :
                      /\ \A i, j \in 1..n : i # j => s[i] # s[j]
                      /\ \A i, j \in 1..n : i < j => stock[s[i]].quantity >= stock[s[j]].quantity}
    IN {[i \in 1..n |-> [location |-> s[i], quantity |-> stock[s[i]].quantity]] : s \in orders}

ShortfallEntry(inv, short) ==
    LogEntry("STOCK_LEVEL_ADJUSTED", "-", "-", short, 0, 0, 0, 0, inv)

\* The audit log once a line item's loop over its stock rows has ended.
LogAfterLine(lg, inv, remaining) ==
    IF remaining > 0 THEN Append(lg, ShortfallEntry(inv, remaining)) ELSE lg

\* What follows a line item: the next line item, or the stock_reduced write.
AfterLine(i, ls, rest) ==
    IF i < Len(ls) THEN <<"reduce_read">> \o rest ELSE <<"reduce_flag">> \o rest

\* reduce_stock: the line items are read when the loop starts, the stock
\* rows of a line item when its inner loop starts.
ReduceRead(r) ==
    /\ At(r, "reduce_read")
    /\ LET l == pr[r]
           ls == IF l.line = 0 THEN invlines[l.inv] ELSE l.lines
           i == l.line + 1
           rest == Tail(l.pc)
       IN IF i > Len(ls)
          THEN /\ pr' = [pr EXCEPT ![r] = [l EXCEPT !.lines = ls, !.pc = <<"reduce_flag">> \o rest]]
               /\ UNCHANGED log
          ELSE \E snap \in StockSnapshots :
                  LET remaining == ls[i].quantity
                  IN IF snap = <<>> \/ remaining <= 0
                     THEN /\ pr' = [pr EXCEPT ![r] = [l EXCEPT !.lines = ls, !.line = i,
                                                       !.pc = AfterLine(i, ls, rest)]]
                          /\ log' = LogAfterLine(log, l.inv, remaining)
                     ELSE /\ pr' = [pr EXCEPT ![r] = [l EXCEPT !.lines = ls, !.line = i,
                                                       !.snapshot = snap, !.k = 1,
                                                       !.remaining = remaining,
                                                       !.pc = <<"reduce_row">> \o rest]]
                          /\ UNCHANGED log
    /\ UNCHANGED <<numVars, stock, st, invoices, invlines, payments, quotes, qlines, clock>>

\* Mutant of Taken: a row is emptied whatever is still needed.
TakenWholeRow(row_quantity, remaining) == row_quantity

\* Quantity taken from a stock row holding row_quantity.
Taken(row_quantity, remaining) == IF row_quantity >= remaining THEN remaining ELSE row_quantity

\* One pass of the inner loop: stock.save() writes the quantity computed
\* from the row as it was read, and the reduction is logged.
ReduceRow(r) ==
    /\ At(r, "reduce_row")
    /\ LET l == pr[r]
           row == l.snapshot[l.k]
           taken == Taken(row.quantity, l.remaining)
           remaining == l.remaining - taken
           ended == remaining <= 0 \/ l.k + 1 > Len(l.snapshot)
           removed == Append(log, LogEntry("STOCK_REMOVED", row.location, row.location, taken,
                                           0, 0, 0, 0, l.inv))
       IN /\ stock' = [stock EXCEPT ![row.location] = Row(row.quantity - taken)]
          /\ log' = IF ended THEN LogAfterLine(removed, l.inv, remaining) ELSE removed
          /\ pr' = [pr EXCEPT ![r] = [l EXCEPT !.k = l.k + 1, !.remaining = remaining,
                                       !.pc = IF ended THEN AfterLine(l.line, l.lines, Tail(l.pc))
                                              ELSE l.pc]]
    /\ UNCHANGED <<numVars, st, invoices, invlines, payments, quotes, qlines, clock>>

\* Mutant of Reduced: reduce_stock forgets to set the flag.
ReducedFlagForgotten(m) == m

\* reduce_stock: self.stock_reduced = True
Reduced(m) == [m EXCEPT !.stock_reduced = TRUE]

\* reduce_stock: self.save(update_fields=['stock_reduced']) writes that
\* column only.
ReduceFlag(r) ==
    /\ At(r, "reduce_flag")
    /\ LET l == pr[r]
           m == Reduced(l.m)
       IN /\ invoices' = [invoices EXCEPT ![l.inv].stock_reduced = m.stock_reduced]
          /\ pr' = [pr EXCEPT ![r] = Settle([l EXCEPT !.m = m, !.line = 0, !.lines = <<>>,
                                                     !.snapshot = <<>>, !.k = 0,
                                                     !.pc = Tail(l.pc)])]
    /\ UNCHANGED <<numVars, stock, log, st, invlines, payments, quotes, qlines, clock>>

(***************************************************************************)
(* InvoiceViewSet.perform_create, QuoteViewSet.convert_to_invoice and      *)
(* InvoiceViewSet.record_payment                                           *)
(***************************************************************************)
\* max_retries of convert_to_invoice
ConvertMaxRetries == 10

InvoiceNumbers == {invoices[i].invoice_number : i \in DOMAIN invoices}

\* Invoice.objects.filter(company=company).order_by('-id').first()
LastInvoiceNumber == IF invoices = <<>> THEN 0 ELSE invoices[Len(invoices)].invoice_number

\* InvoiceViewSet.perform_create with InvoiceDetailSerializer.create, one
\* transaction: the invoice is inserted with the submitted status and due
\* date and the next number, its line item is created and calculate_totals
\* saves the totals.  A number already taken raises IntegrityError on every
\* attempt.
InvoiceCreate(r, cap, status, due_date, tax_rate, p, submitted) ==
    /\ PayAccept(r, cap)
    /\ LET number == LastInvoiceNumber + 1
           ls == SavedLines(submitted, p)
           m == WithTotals(NewInvoice(number, 0, status, due_date, tax_rate), ls)
           l == [pr[r] EXCEPT !.kind = "create", !.phase = "done"]
       IN IF number \in InvoiceNumbers
          THEN /\ pr' = [pr EXCEPT ![r] = [l EXCEPT !.resp = "NumberGenerationFailed"]]
               /\ UNCHANGED <<invoices, invlines>>
          ELSE /\ invoices' = Append(invoices, m)
               /\ invlines' = Append(invlines, ls)
               /\ pr' = [pr EXCEPT ![r] = [l EXCEPT !.resp = "OK", !.inv = Len(invoices) + 1, !.m = m]]
    /\ UNCHANGED <<numVars, stock, log, st, payments, quotes, qlines, clock>>

\* convert_to_invoice: get_object and the two validations.
ConvertCheck(r, cap, qid) ==
    /\ PayAccept(r, cap)
    /\ LET q == quotes[qid]
           l == [pr[r] EXCEPT !.kind = "convert", !.quote = qid, !.q = q]
       IN pr' = [pr EXCEPT ![r] =
                    IF q.status # "ACCEPTED"
                    THEN [l EXCEPT !.phase = "done", !.resp = "QuoteNotAccepted"]
                    ELSE IF \E i \in DOMAIN invoices : invoices[i].quote = qid
                    THEN [l EXCEPT !.phase = "done", !.resp = "AlreadyConverted"]
                    ELSE [l EXCEPT !.phase = "run",
                                   !.pc = <<"cv_create", "cv_lines", "ct_read", "reduce_call",
                                            "cv_quote">>]]
    /\ UNCHANGED <<numVars, stock, log, st, invoices, invlines, payments, quotes, qlines, clock>>

\* convert_to_invoice: the retry loop that picks last number + 1 + attempt,
\* skips numbers already present and inserts the UNPAID invoice.  The loop
\* is one step here; its statements are interleaved one by one in the
\* document-numbering section.
ConvertCreate(r) ==
    /\ At(r, "cv_create")
    /\ LET l == pr[r]
           free == {n \in (LastInvoiceNumber + 1)..(LastInvoiceNumber + ConvertMaxRetries) :
                       n \notin InvoiceNumbers}
       IN IF free = {}
          THEN /\ pr' = [pr EXCEPT ![r] = [l EXCEPT !.phase = "done", !.pc = <<>>,
                                                    !.resp = "NumberGenerationFailed"]]
               /\ UNCHANGED <<invoices, invlines>>
          ELSE LET number == CHOOSE n \in free : \A o \in free : n <= o
                   m == NewInvoice(number, l.quote, "UNPAID", Today + 30, l.q.tax_rate)
               IN /\ invoices' = Append(invoices, m)
                  /\ invlines' = Append(invlines, <<>>)
                  /\ pr' = [pr EXCEPT ![r] = [l EXCEPT !.inv = Len(invoices) + 1, !.m = m,
                                                       !.pc = Tail(l.pc)]]
    /\ UNCHANGED <<numVars, stock, log, st, payments, quotes, qlines, clock>>

\* InvoiceLineItem.objects.create / QuoteLineItem.objects.create with the
\* fields of a stored quote line item.
CopiedLine(ql, p) == SavedLine(ql, p)

\* convert_to_invoice: copy the quote's line items to the invoice.
ConvertCopyLines(r, p) ==
    /\ At(r, "cv_lines")
    /\ LET l == pr[r]
           src == qlines[l.quote]
       IN /\ invlines' = [invlines EXCEPT ![l.inv] = [i \in DOMAIN src |-> CopiedLine(src[i], p)]]
          /\ pr' = [pr EXCEPT ![r].pc = Tail(l.pc)]
    /\ UNCHANGED <<numVars, stock, log, st, invoices, payments, quotes, qlines, clock>>

\* Invoice.calculate_totals: read the line items, set the totals, then save.
CalculateTotalsRead(r) ==
    /\ At(r, "ct_read")
    /\ LET l == pr[r]
       IN pr' = [pr EXCEPT ![r] = [l EXCEPT !.m = WithTotals(l.m, invlines[l.inv]),
                                            !.pc = <<"save_read">> \o Tail(l.pc)]]
    /\ UNCHANGED <<numVars, stock, log, st, invoices, invlines, payments, quotes, qlines, clock>>

\* InvoiceDetailSerializer.update up to instance.save(): get_object loads
\* the invoice, every submitted field is set on it (status and tax_rate are
\* writable) and Invoice.save runs; the submitted line items, if any, then
\* replace the stored ones, and calculate_totals saves once more.
InvoiceUpdateGet(r, cap, inv, status, tax_rate, setsLines, submitted) ==
    /\ PayAccept(r, cap)
    /\ inv \in DOMAIN invoices
    /\ LET m == invoices[inv]
           l == [pr[r] EXCEPT !.kind = "update", !.inv = inv,
                              !.m = [m EXCEPT !.status = status, !.tax_rate = tax_rate],
                              !.loaded_reduced = m.stock_reduced, !.sub = submitted]
       IN pr' = [pr EXCEPT ![r] =
                    [l EXCEPT !.phase = "run",
                              !.pc = <<"save_read">>
                                     \o (IF setsLines THEN <<"up_lines">> ELSE <<>>)
                                     \o <<"ct_read">>]]
    /\ UNCHANGED <<numVars, stock, log, st, invoices, invlines, payments, quotes, qlines, clock>>

\* InvoiceDetailSerializer.update: instance.line_items.all().delete(), then
\* InvoiceLineItem.objects.create for every submitted line item.
InvoiceReplaceLines(r, p) ==
    /\ At(r, "up_lines")
    /\ invlines' = [invlines EXCEPT ![pr[r].inv] = SavedLines(pr[r].sub, p)]
    /\ pr' = [pr EXCEPT ![r].pc = Tail(pr[r].pc)]
    /\ UNCHANGED <<numVars, stock, log, st, invoices, payments, quotes, qlines, clock>>

\* convert_to_invoice: quote.status = 'INVOICED'; quote.save()
ConvertQuoteSave(r) ==
    /\ At(r, "cv_quote")
    /\ LET l == pr[r]
       IN /\ quotes' = [quotes EXCEPT ![l.quote] = [l.q EXCEPT !.status = "INVOICED"]]
          /\ pr' = [pr EXCEPT ![r] = Settle([l EXCEPT !.pc = Tail(l.pc)])]
    /\ UNCHANGED <<numVars, stock, log, st, invoices, invlines, payments, qlines, clock>>

\* Mutant of ExceedsOutstanding: the amount is compared with the total.
ExceedsTotal(amount, m) == amount > m.total_amount

\* record_payment: amount > invoice.amount_due
ExceedsOutstanding(amount, m) == amount > AmountDue(m)

\* record_payment: get_object and the validation of the amount.
RecordPaymentGet(r, cap, inv, amount) ==
    /\ PayAccept(r, cap)
    /\ inv \in DOMAIN invoices
    /\ LET m == invoices[inv]
           l == [pr[r] EXCEPT !.kind = "payment", !.inv = inv, !.amount = amount, !.m = m,
                              !.loaded_reduced = m.stock_reduced]
       IN pr' = [pr EXCEPT ![r] =
                    IF ExceedsOutstanding(amount, m)
                    THEN [l EXCEPT !.phase = "done", !.resp = "PaymentExceedsOutstanding"]
                    ELSE [l EXCEPT !.phase = "run", !.pc = <<"pay_insert", "pay_sum">>]]
    /\ UNCHANGED <<numVars, stock, log, st, invoices, invlines, payments, quotes, qlines, clock>>

\* Payment.save: super().save() inserts the payment.
PaymentInsert(r) ==
    /\ At(r, "pay_insert")
    /\ payments' = Append(payments, [invoice |-> pr[r].inv, amount |-> pr[r].amount])
    /\ pr' = [pr EXCEPT ![r].pc = Tail(pr[r].pc)]
    /\ UNCHANGED <<numVars, stock, log, st, invoices, invlines, quotes, qlines, clock>>

\* Payment.save: amount_paid is re-summed from the payment rows on the
\* in-memory invoice, update_status derives the status and saves, and
\* self.invoice.save() saves once more.
PaymentSum(r) ==
    /\ At(r, "pay_sum")
    /\ LET l == pr[r]
           summed == [l.m EXCEPT !.amount_paid = SumPayments(Len(payments), l.inv)]
           us == UpdateStatus(summed, clock)
       IN /\ pr' = [pr EXCEPT ![r] = [l EXCEPT !.m = us.m, !.old_status = l.m.status,
                                                !.pc = IF us.saved
                                                       THEN <<"save_read", "us_after", "save_read">>
                                                       ELSE <<"save_read">>]]
          /\ clock' = IF us.m.paid_date # l.m.paid_date THEN clock + 1 ELSE clock
    /\ UNCHANGED <<numVars, stock, log, st, invoices, invlines, payments, quotes, qlines>>

\* An accepted quote for one unit of the product, and stock on two locations.
PayInit ==
    /\ stock = InitialStock
    /\ log = <<>>
    /\ st = <<>>
    /\ invoices = <<>>
    /\ invlines = <<>>
    /\ payments = <<>>
    /\ quotes = <<WithTotals(NewQuote(1, "ACCEPTED", CompanyTaxRate), <<Line(1, UnitPrice)>>)>>
    /\ qlines = << <<Line(1, UnitPrice)>> >>
    /\ clock = 1
    /\ pr = [r \in PayReqs |-> PayIdle]
    /\ NumberingUnused

PayStep(r, cap) ==
    \/ \E s \in InvoiceStatuses, d \in DueDates :
          InvoiceCreate(r, cap, s, d, CompanyTaxRate, TheProduct, <<Line(1, UnitPrice)>>)
    \/ \E qid \in DOMAIN quotes : ConvertCheck(r, cap, qid)
    \/ ConvertCreate(r)
    \/ ConvertCopyLines(r, TheProduct)
    \/ CalculateTotalsRead(r)
    \/ ConvertQuoteSave(r)
    \/ \E inv \in DOMAIN invoices, a \in 1..MaxAmount : RecordPaymentGet(r, cap, inv, a)
    \/ PaymentInsert(r)
    \/ PaymentSum(r)
    \/ InvoiceSaveRead(r)
    \/ InvoiceSaveWrite(r)
    \/ ReduceRead(r)
    \/ ReduceRow(r)
    \/ ReduceFlag(r)

\* Handlers run in parallel, each statement committing on its own.
PayNext == \E r \in PayReqs : PayStep(r, MaxInFlight)

\* One handler at a time: each call runs to completion before the next.
PayNextSeq == \E r \in PayReqs : PayStep(r, 1)

SpecPay == PayInit /\ [][PayNext]_vars

SpecPaySeq == PayInit /\ [][PayNextSeq]_vars

(***************************************************************************)
(* Quote handlers: QuoteViewSet.perform_create, update, send_to_client and *)
(* duplicate.  Each action is the whole handler, which is exact when the   *)
(* handlers are served one at a time (SpecQuoteSeq).                       *)
(***************************************************************************)
QuoteStatuses == {"DRAFT", "SENT", "ACCEPTED", "REJECTED", "INVOICED"}

\* Line items a client may submit with a quote: none, or one line.
SubmittedLines == {<<>>} \cup {<<Line(n, UnitPrice)>> : n \in 1..MaxQty}

\* The largest quote number in the table, 0 when it is empty.
LastQuoteNumber ==
    IF quotes = <<>> THEN 0
    ELSE LET ns == {quotes[i].quote_number : i \in DOMAIN quotes}
         IN CHOOSE n \in ns : \A o \in ns : o <= n

\* QuoteViewSet.perform_create with QuoteDetailSerializer.create: the quote
\* is stored with the submitted status, then its line items, then totals.
QuoteCreate(r, cap, status, tax_rate, p, ls) ==
    /\ PayAccept(r, cap)
    /\ quotes' = Append(quotes, WithTotals(NewQuote(LastQuoteNumber + 1, status, tax_rate),
                                           SavedLines(ls, p)))
    /\ qlines' = Append(qlines, SavedLines(ls, p))
    /\ pr' = [pr EXCEPT ![r] = [pr[r] EXCEPT !.kind = "quote_create", !.phase = "done",
                                              !.quote = Len(quotes) + 1, !.resp = "OK"]]
    /\ UNCHANGED <<numVars, stockVars, invoices, invlines, payments, clock>>

\* QuoteDetailSerializer.update: every submitted field is set on the
\* instance and saved; submitted line items replace the stored ones; the
\* totals are recomputed.  setsStatus / setsLines say what was submitted.
QuoteUpdate(r, cap, qid, setsStatus, status, tax_rate, setsLines, p, ls) ==
    /\ PayAccept(r, cap)
    /\ qid \in DOMAIN quotes
    /\ LET lines == IF setsLines THEN SavedLines(ls, p) ELSE qlines[qid]
           m == [quotes[qid] EXCEPT !.status = IF setsStatus THEN status ELSE @,
                                    !.tax_rate = tax_rate]
       IN /\ quotes' = [quotes EXCEPT ![qid] = WithTotals(m, lines)]
          /\ qlines' = [qlines EXCEPT ![qid] = lines]
    /\ pr' = [pr EXCEPT ![r] = [pr[r] EXCEPT !.kind = "quote_update", !.phase = "done",
                                              !.quote = qid, !.resp = "OK"]]
    /\ UNCHANGED <<numVars, stockVars, invoices, invlines, payments, clock>>

\* QuoteViewSet.send_to_client: when the mail is sent a DRAFT quote becomes
\* SENT; otherwise nothing is written.
QuoteSend(r, cap, qid, sent) ==
    /\ PayAccept(r, cap)
    /\ qid \in DOMAIN quotes
    /\ quotes' = IF sent /\ quotes[qid].status = "DRAFT"
                 THEN [quotes EXCEPT ![qid].status = "SENT"]
                 ELSE quotes
    /\ pr' = [pr EXCEPT ![r] = [pr[r] EXCEPT !.kind = "quote_send", !.phase = "done",
                                              !.quote = qid,
                                              !.resp = IF sent THEN "OK" ELSE "MailFailed"]]
    /\ UNCHANGED <<numVars, stockVars, invoices, invlines, payments, qlines, clock>>

\* QuoteViewSet.duplicate: a new DRAFT quote with the original's tax rate
\* and copies of its line items, then totals.
QuoteDuplicate(r, cap, qid, p) ==
    /\ PayAccept(r, cap)
    /\ qid \in DOMAIN quotes
    /\ LET src == qlines[qid]
           ls == [i \in DOMAIN src |-> CopiedLine(src[i], p)]
       IN /\ quotes' = Append(quotes, WithTotals(NewQuote(LastQuoteNumber + 1, "DRAFT",
                                                          quotes[qid].tax_rate), ls))
          /\ qlines' = Append(qlines, ls)
    /\ pr' = [pr EXCEPT ![r] = [pr[r] EXCEPT !.kind = "quote_duplicate", !.phase = "done",
                                              !.quote = Len(quotes) + 1, !.resp = "OK"]]
    /\ UNCHANGED <<numVars, stockVars, invoices, invlines, payments, clock>>

\* No quote yet, stock on two locations.
QuoteInit ==
    /\ stock = InitialStock
    /\ log = <<>>
    /\ st = <<>>
    /\ invoices = <<>>
    /\ invlines = <<>>
    /\ payments = <<>>
    /\ quotes = <<>>
    /\ qlines = <<>>
    /\ clock = 1
    /\ pr = [r \in PayReqs |-> PayIdle]
    /\ NumberingUnused

\* The quote handlers and convert_to_invoice, one handler at a time.
QuoteNextSeq ==
    \E r \in PayReqs :
        \/ \E s \in QuoteStatuses, ls \in SubmittedLines :
              QuoteCreate(r, 1, s, CompanyTaxRate, TheProduct, ls)
        \/ \E qid \in DOMAIN quotes, ss \in BOOLEAN, s \in QuoteStatuses, sl \in BOOLEAN,
              ls \in SubmittedLines :
              QuoteUpdate(r, 1, qid, ss, s, CompanyTaxRate, sl, TheProduct, ls)
        \/ \E qid \in DOMAIN quotes, sent \in BOOLEAN : QuoteSend(r, 1, qid, sent)
        \/ \E qid \in DOMAIN quotes : QuoteDuplicate(r, 1, qid, TheProduct)
        \/ \E qid \in DOMAIN quotes : ConvertCheck(r, 1, qid)
        \/ ConvertCreate(r)
        \/ ConvertCopyLines(r, TheProduct)
        \/ CalculateTotalsRead(r)
        \/ ConvertQuoteSave(r)
        \/ InvoiceSaveRead(r)
        \/ InvoiceSaveWrite(r)
        \/ ReduceRead(r)
        \/ ReduceRow(r)
        \/ ReduceFlag(r)

SpecQuoteSeq == QuoteInit /\ [][QuoteNextSeq]_vars

(***************************************************************************)
(* Quotes and invoices with discounts, tax and a catalogue that changes.   *)
(* st holds the Product row; a company's sales tax rate and the line items *)
(* a client submits are inputs of the handlers.                            *)
(***************************************************************************)
\* Tax rates in percent: none, and one that leaves half a unit to round.
TaxRates == {0, 50}

\* The Product row before and after edits in the catalogue; sku is blank
\* and price is 0.00 by default.
DocProducts == {TheProduct, ProductRow("widget", "", 0), ProductRow("gizmo", "W-2", 3)}

\* Line items a client may submit: none, or one line with a percentage or
\* a fixed discount; a unit_price of 0 takes the product's price.
DocLines ==
    {<<>>, <<SubmittedLine(1, 3, "PERCENTAGE", 50)>>, <<SubmittedLine(MaxQty, 0, "FIXED", 1)>>}

\* The line_items key of an update: absent, or a list of line items.
LineUpdates == {<<FALSE, <<>> >>} \cup {<<TRUE, ls>> : ls \in DocLines}

\* ProductViewSet update: the Product row is overwritten.
ProductEdit(r, cap, p) ==
    /\ PayAccept(r, cap)
    /\ p # st
    /\ st' = p
    /\ pr' = [pr EXCEPT ![r] = [pr[r] EXCEPT !.kind = "product_edit", !.phase = "done",
                                             !.resp = "OK"]]
    /\ UNCHANGED <<numVars, stock, log, invoices, invlines, payments, quotes, qlines, clock>>

\* No quote and no invoice yet; the Product row is any of the catalogue's.
DocInit ==
    /\ stock = InitialStock
    /\ log = <<>>
    /\ st \in DocProducts
    /\ invoices = <<>>
    /\ invlines = <<>>
    /\ payments = <<>>
    /\ quotes = <<>>
    /\ qlines = <<>>
    /\ clock = 1
    /\ pr = [r \in PayReqs |-> PayIdle]
    /\ NumberingUnused

\* Catalogue edits and the quote and invoice handlers, one at a time.
DocNextSeq ==
    \E r \in PayReqs :
        \/ \E p \in DocProducts : ProductEdit(r, 1, p)
        \/ \E t \in TaxRates, ls \in DocLines : QuoteCreate(r, 1, "ACCEPTED", t, st, ls)
        \/ \E qid \in DOMAIN quotes, t \in TaxRates, u \in LineUpdates :
              QuoteUpdate(r, 1, qid, FALSE, "DRAFT", t, u[1], st, u[2])
        \/ \E qid \in DOMAIN quotes : QuoteDuplicate(r, 1, qid, st)
        \/ \E qid \in DOMAIN quotes : ConvertCheck(r, 1, qid)
        \/ ConvertCreate(r)
        \/ ConvertCopyLines(r, st)
        \/ \E t \in TaxRates, ls \in DocLines :
              InvoiceCreate(r, 1, "UNPAID", Today + 30, t, st, ls)
        \/ \E inv \in DOMAIN invoices, s \in {"UNPAID", "PAID"}, t \in TaxRates,
              u \in LineUpdates : InvoiceUpdateGet(r, 1, inv, s, t, u[1], u[2])
        \/ InvoiceReplaceLines(r, st)
        \/ CalculateTotalsRead(r)
        \/ ConvertQuoteSave(r)
        \/ InvoiceSaveRead(r)
        \/ InvoiceSaveWrite(r)
        \/ ReduceRead(r)
        \/ ReduceRow(r)
        \/ ReduceFlag(r)

SpecDocSeq == DocInit /\ [][DocNextSeq]_vars

(***************************************************************************)
(* Invoice.update_status as a function of the instance it is called on.    *)
(* invoices[1] is the instance as stored, invoices[2] the instance after   *)
(* the calls of update_status made so far.                                 *)
(***************************************************************************)
MaxDerive == 2          \* calls of update_status in one behaviour

\* An invoice row as create, update and payments can leave it: any status
\* (the field is writable), any amount paid against any total.
StoredInvoices ==
    {[NewInvoice(1, 0, s, d, CompanyTaxRate) EXCEPT !.subtotal = t, !.total_amount = t,
                                                    !.amount_paid = p] :
        s \in InvoiceStatuses, d \in DueDates, t \in 0..(MaxAmount + 1), p \in 0..(MaxAmount + 1)}

DeriveInit ==
    /\ \E m \in StoredInvoices : invoices = <<m, m>>
    /\ invlines = <<>>
    /\ payments = <<>>
    /\ quotes = <<>>
    /\ qlines = <<>>
    /\ clock = 1
    /\ pr = <<>>
    /\ stock = InitialStock
    /\ log = <<>>
    /\ st = <<>>
    /\ NumberingUnused

\* One call of update_status on the instance, up to its self.save().
DeriveStatus ==
    /\ clock <= MaxDerive
    /\ invoices' = [invoices EXCEPT ![2] = UpdateStatus(invoices[2], clock).m]
    /\ clock' = clock + 1
    /\ UNCHANGED <<numVars, stockVars, invlines, payments, quotes, qlines, pr>>

DeriveNext == DeriveStatus

SpecDerive == DeriveInit /\ [][DeriveNext]_vars

(***************************************************************************)
(* Document numbering: the number-issuing loops of                         *)
(* QuoteViewSet.perform_create and duplicate, InvoiceViewSet.perform_create,*)
(* QuoteViewSet.convert_to_invoice and PurchaseOrderViewSet.perform_create. *)
(* Only the number columns of the three tables are kept; the statements    *)
(* that follow a successful insert (line items, totals) do not touch them. *)
(***************************************************************************)
MaxNumReq == 3          \* document-creating requests served in one behaviour

NumReqs == 1..MaxNumReq
Companies == {"acme", "globex"}
Series == {"QT", "INV", "PO"}
NumKinds == {"quote_create", "quote_duplicate", "invoice_create", "invoice_convert", "po_create"}

\* The table each handler inserts into, which is also its number prefix.
SeriesOf(kind) ==
    CASE kind \in {"quote_create", "quote_duplicate"} -> "QT"
      [] kind \in {"invoice_create", "invoice_convert"} -> "INV"
      [] kind = "po_create" -> "PO"

\* max_retries of the two quote handlers and the two invoice handlers
SalesMaxRetries == 10

\* max_retries of PurchaseOrderViewSet.perform_create
PurchaseMaxRetries == 5

MaxRetries(kind) == IF kind = "po_create" THEN PurchaseMaxRetries ELSE SalesMaxRetries

\* Handlers whose insert runs inside transaction.atomic; duplicate and
\* convert_to_invoice insert in autocommit.
InTransaction(kind) == kind \in {"quote_create", "invoice_create", "po_create"}

\* Handlers that read the last row with select_for_update.
LocksLastRow(kind) == kind \in {"invoice_create", "po_create"}

\* Handlers that add the attempt to the number they try.
AddsAttempt(kind) == kind \in {"quote_create", "quote_duplicate", "invoice_convert"}

\* Width of the zero padding of a number (format spec 05d)
PadWidth == 5

RECURSIVE Digits(_)
Digits(n) == IF n < 10 THEN <<n>> ELSE Digits(n \div 10) \o <<n % 10>>

RECURSIVE ZeroPad(_)
ZeroPad(d) == IF Len(d) >= PadWidth THEN d ELSE ZeroPad(<<0>> \o d)

\* f"{prefix}-{n:05d}": the stored number is a string.
FormatNumber(prefix, n) == [prefix |-> prefix, digits |-> ZeroPad(Digits(n))]

RECURSIVE DigitsValue(_)
DigitsValue(d) ==
    IF d = <<>> THEN 0 ELSE 10 * DigitsValue(SubSeq(d, 1, Len(d) - 1)) + d[Len(d)]

\* int(number.split('-')[-1])
ParseNumber(s) == DigitsValue(s.digits)

NoNumber == [prefix |-> "", digits |-> <<>>]

DocRow(company, number) == [company |-> company, number |-> number]

\* Ids (positions) of a company's rows in a table.
RowsOf(series, company) == {i \in DOMAIN docs[series] : docs[series][i].company = company}

\* .filter(company=company).order_by('-id').first(); 0 when there is none.
LastRowOf(series, company) ==
    IF RowsOf(series, company) = {} THEN 0
    ELSE CHOOSE i \in RowsOf(series, company) : \A j \in RowsOf(series, company) : j <= i

\* QuoteViewSet.perform_create: the largest number over ALL quotes.
MaxNumberOf(series) ==
    IF docs[series] = <<>> THEN 0
    ELSE LET ns == {ParseNumber(docs[series][i].number) : i \in DOMAIN docs[series]}
         IN CHOOSE n \in ns : \A o \in ns : o <= n

\* The two keys differ?  quote_number and po_number are unique over the
\* whole table, invoice_number is unique together with the company.
SameKey(series, c1, n1, c2, n2) == n1 = n2 /\ (series = "INV" => c1 = c2)

\* Mutant of UniqueViolation: the tables carry no unique constraint.
UniqueViolationNever(series, company, number) == FALSE

\* The unique index refuses the insert: a committed row holds the key.
UniqueViolation(series, company, number) ==
    \E i \in DOMAIN docs[series] :
        SameKey(series, company, number, docs[series][i].company, docs[series][i].number)

NumIdle ==
    [pc |-> "new", kind |-> "none", company |-> "none", attempt |-> 0, number |-> NoNumber,
     found |-> 0, lockrow |-> 0, pending |-> FALSE, resp |-> "none"]

NumInFlight(r) == nr[r].pc \notin {"new", "done"}

NumRunning == {r \in DOMAIN nr : NumInFlight(r)}

\* Another open transaction holds the lock select_for_update took on row i.
RowLocked(series, i, r) ==
    \E o \in (DOMAIN nr) \ {r} :
        NumInFlight(o) /\ SeriesOf(nr[o].kind) = series /\ nr[o].lockrow = i

\* Another open transaction has inserted the same key and not yet committed:
\* the insert waits on the unique index.
InsertWaits(r) ==
    \E o \in (DOMAIN nr) \ {r} :
        /\ NumInFlight(o) /\ nr[o].pending
        /\ SeriesOf(nr[o].kind) = SeriesOf(nr[r].kind)
        /\ SameKey(SeriesOf(nr[r].kind), nr[r].company, nr[r].number,
                   nr[o].company, nr[o].number)

\* The end of one pass of the retry loop that did not insert: the next
\* attempt, or the error response after the last one.
NextAttempt(l, resp) ==
    IF l.attempt + 1 < MaxRetries(l.kind)
    THEN [l EXCEPT !.attempt = l.attempt + 1, !.pc = "select", !.lockrow = 0, !.found = 0]
    ELSE [l EXCEPT !.pc = "done", !.resp = resp, !.lockrow = 0, !.found = 0]

\* The number a handler tries, from the row (or maximum) it has read.
NewNumber(kind, last_number, attempt) ==
    IF AddsAttempt(kind) THEN last_number + 1 + attempt ELSE last_number + 1

\* The request reaches the view: company = request.user.company.
NumBegin(r, cap, kind, company) ==
    /\ nr[r].pc = "new"
    /\ \A o \in DOMAIN nr : o < r => nr[o].pc # "new"
    /\ Cardinality(NumRunning) < cap
    /\ nr' = [nr EXCEPT ![r] = [NumIdle EXCEPT !.pc = "select", !.kind = kind,
                                               !.company = company]]
    /\ UNCHANGED <<docs, stockVars, salesVars>>

\* The read that opens an attempt.  perform_create of quotes scans every
\* quote; the other handlers take the company's last row by id, and
\* perform_create of invoices and purchase orders lock it, waiting when
\* another transaction holds the lock.
NumSelect(r) ==
    /\ nr[r].pc = "select"
    /\ LET l == nr[r]
           s == SeriesOf(l.kind)
           i == LastRowOf(s, l.company)
           last_number == IF l.kind = "quote_create" THEN MaxNumberOf(s)
                          ELSE IF i = 0 THEN 0 ELSE ParseNumber(docs[s][i].number)
           number == FormatNumber(s, NewNumber(l.kind, last_number, l.attempt))
       IN nr' = [nr EXCEPT ![r] =
                    IF l.kind = "quote_create"
                    THEN [l EXCEPT !.number = number, !.pc = "insert"]
                    ELSE IF ~LocksLastRow(l.kind)
                    THEN [l EXCEPT !.number = number, !.found = i, !.pc = "exists"]
                    ELSE IF i # 0 /\ RowLocked(s, i, r)
                    THEN [l EXCEPT !.number = number, !.found = i, !.pc = "lock_wait"]
                    ELSE [l EXCEPT !.number = number, !.found = i, !.lockrow = i,
                                   !.pc = "insert"]]
    /\ UNCHANGED <<docs, stockVars, salesVars>>

\* The lock is released: select_for_update returns the row it had found.
NumLockGranted(r) ==
    /\ nr[r].pc = "lock_wait"
    /\ ~RowLocked(SeriesOf(nr[r].kind), nr[r].found, r)
    /\ nr' = [nr EXCEPT ![r].lockrow = nr[r].found, ![r].pc = "insert"]
    /\ UNCHANGED <<docs, stockVars, salesVars>>

\* duplicate and convert_to_invoice: the .exists() test on the company's
\* rows; a number already there ends the attempt (continue).
NumExists(r) ==
    /\ nr[r].pc = "exists"
    /\ LET l == nr[r]
           s == SeriesOf(l.kind)
       IN nr' = [nr EXCEPT ![r] =
                    IF \E i \in RowsOf(s, l.company) : docs[s][i].number = l.number
                    THEN NextAttempt(l, "NumberGenerationFailed")
                    ELSE [l EXCEPT !.pc = "insert"]]
    /\ UNCHANGED <<docs, stockVars, salesVars>>

\* The INSERT of the document.  IntegrityError ends the attempt; in
\* autocommit the row is committed at once, in a transaction at its commit.
NumInsert(r) ==
    /\ nr[r].pc = "insert"
    /\ ~InsertWaits(r)
    /\ LET l == nr[r]
           s == SeriesOf(l.kind)
       IN IF UniqueViolation(s, l.company, l.number)
          THEN /\ nr' = [nr EXCEPT ![r] =
                           NextAttempt(l, IF InTransaction(l.kind) THEN "IntegrityError"
                                          ELSE "NumberGenerationFailed")]
               /\ UNCHANGED docs
          ELSE IF InTransaction(l.kind)
          THEN /\ nr' = [nr EXCEPT ![r] = [l EXCEPT !.pending = TRUE, !.pc = "commit"]]
               /\ UNCHANGED docs
          ELSE /\ docs' = [docs EXCEPT ![s] = Append(docs[s], DocRow(l.company, l.number))]
               /\ nr' = [nr EXCEPT ![r] = [l EXCEPT !.pc = "done", !.resp = "OK"]]
    /\ UNCHANGED <<stockVars, salesVars>>

\* The end of transaction.atomic: the row becomes visible, locks are released.
NumCommit(r) ==
    /\ nr[r].pc = "commit"
    /\ LET l == nr[r]
           s == SeriesOf(l.kind)
       IN /\ docs' = [docs EXCEPT ![s] = Append(docs[s], DocRow(l.company, l.number))]
          /\ nr' = [nr EXCEPT ![r] = [l EXCEPT !.pc = "done", !.resp = "OK", !.pending = FALSE,
                                               !.lockrow = 0]]
    /\ UNCHANGED <<stockVars, salesVars>>

\* Empty tables, no request served yet.
NumInit ==
    /\ docs = [s \in Series |-> <<>>]
    /\ nr = [r \in NumReqs |-> NumIdle]
    /\ stock = [l \in Locations |-> NoRow]
    /\ log = <<>>
    /\ st = <<>>
    /\ SalesUnused

NumStep(r, cap) ==
    \/ \E k \in NumKinds, c \in Companies : NumBegin(r, cap, k, c)
    \/ NumSelect(r)
    \/ NumLockGranted(r)
    \/ NumExists(r)
    \/ NumInsert(r)
    \/ NumCommit(r)

\* Handlers run in parallel (thread pool of MaxInFlight workers).
NumNext == \E r \in NumReqs : NumStep(r, MaxInFlight)

SpecNum == NumInit /\ [][NumNext]_vars

\* One handler at a time: no lock is ever found taken.
NumNextSeq ==
    \E r \in NumReqs :
        \/ \E k \in NumKinds, c \in Companies : NumBegin(r, 1, k, c)
        \/ NumSelect(r)
        \/ NumExists(r)
        \/ NumInsert(r)
        \/ NumCommit(r)

SpecNumSeq == NumInit /\ [][NumNextSeq]_vars

(***************************************************************************)
(* One more caller than QuoteViewSet.perform_create has attempts, all      *)
(* creating a quote for the same tenant at the same time.  The schedule is *)
(* one of those the thread pool allows: every caller has arrived before    *)
(* the first read, and the callers move through each attempt together,     *)
(* every read of an attempt before its first insert.                       *)
(***************************************************************************)
HerdCallers == 1..(SalesMaxRetries + 1)

\* Position of a handler in its retry loop: attempt, then statement.
HerdRank(l) ==
    3 * l.attempt + (CASE l.pc = "select" -> 0 [] l.pc = "insert" -> 1 [] OTHER -> 2)

\* The scheduler runs the handler that is furthest behind, the lowest
\* request first, and passes over handlers waiting on the unique index.
HerdTurn(r) ==
    /\ \A o \in HerdCallers : nr[o].pc # "new"
    /\ NumInFlight(r)
    /\ \A o \in HerdCallers \ {r} :
          \/ ~NumInFlight(o)
          \/ (nr[o].pc = "insert" /\ InsertWaits(o))
          \/ HerdRank(nr[o]) > HerdRank(nr[r])
          \/ (HerdRank(nr[o]) = HerdRank(nr[r]) /\ o > r)

HerdInit ==
    /\ docs = [s \in Series |-> <<>>]
    /\ nr = [r \in HerdCallers |-> NumIdle]
    /\ stock = [l \in Locations |-> NoRow]
    /\ log = <<>>
    /\ st = <<>>
    /\ SalesUnused

HerdBegin(r) == NumBegin(r, SalesMaxRetries + 1, "quote_create", "acme")

HerdSelect(r) == HerdTurn(r) /\ NumSelect(r)

HerdInsert(r) == HerdTurn(r) /\ NumInsert(r)

HerdCommit(r) == HerdTurn(r) /\ NumCommit(r)

HerdNext == \E r \in HerdCallers : HerdBegin(r) \/ HerdSelect(r) \/ HerdInsert(r) \/ HerdCommit(r)

SpecHerd == HerdInit /\ [][HerdNext]_vars

(***************************************************************************)
(* Tenancy of the stock ledger: StockAdjustmentView.post,                  *)
(* StockTransferView.post, PurchaseOrder.add_stock_to_inventory and        *)
(* Invoice.reduce_stock over the products and locations of two companies.  *)
(* Here stock is keyed by <<product, location>>, st holds one request or   *)
(* purchase order per slot, and the handlers run one after another.        *)
(***************************************************************************)
MaxTenantReq == 2       \* requests and documents served in one behaviour

TenantReqs == 1..MaxTenantReq

Products == {"widget", "gadget"}

\* Product.company
ProductCompany(p) == IF p = "widget" THEN "acme" ELSE "globex"

TenantLocations == {"acme_main", "acme_shop", "globex_main"}

\* Location.company
LocationCompany(l) == IF l = "globex_main" THEN "globex" ELSE "acme"

StockKeys == Products \X TenantLocations

TenantLogEntry(company, action_type, product, location, to_location, quantity) ==
    [company |-> company, action_type |-> action_type, product |-> product,
     location |-> location, to_location |-> to_location, quantity |-> quantity]

TenantIdle ==
    [pc |-> "new", call |-> "none", company |-> "acme", product |-> "widget",
     location |-> "acme_main", to_location |-> "acme_main", quantity |-> 0,
     quantity_ordered |-> 0, status |-> "none", stock_added |-> FALSE,
     stock_reduced |-> FALSE, resp |-> "none"]

\* A finished request: what was called, with which references, and the answer.
Answered(call, c, p, l, to, quantity, resp) ==
    [TenantIdle EXCEPT !.pc = "done", !.call = call, !.company = c, !.product = p,
                       !.location = l, !.to_location = to, !.quantity = quantity,
                       !.resp = resp]

\* Requests are numbered in their order of arrival.
TenantAccept(r) == st[r].pc = "new" /\ \A o \in TenantReqs : o < r => st[o].pc # "new"

\* Stock.objects.get_or_create(product, location, defaults={'quantity': 0})
GetOrCreate(s, k) == IF s[k].exists THEN s ELSE [s EXCEPT ![k] = Row(0)]

\* StockAdjustmentView.post by a user of company c.  A rejected remove
\* returns a Response, so the row get_or_create inserted is committed.
TenantAdjust(r, c, p, l, action, quantity) ==
    /\ TenantAccept(r)
    /\ LET k == <<p, l>>
           created == GetOrCreate(stock, k)
           old == created[k].quantity
           new == AdjustedQuantity(action, old, quantity)
       IN IF ProductCompany(p) # c \/ LocationCompany(l) # c
          THEN /\ st' = [st EXCEPT ![r] = Answered("adjust", c, p, l, l, quantity, "InvalidReference")]
               /\ UNCHANGED <<stock, log>>
          ELSE IF InsufficientForRemove(action, old, quantity)
          THEN /\ st' = [st EXCEPT ![r] = Answered("adjust", c, p, l, l, quantity, "InsufficientStock")]
               /\ stock' = created
               /\ UNCHANGED log
          ELSE /\ st' = [st EXCEPT ![r] = Answered("adjust", c, p, l, l, quantity, "OK")]
               /\ stock' = [created EXCEPT ![k] = Row(new)]
               /\ log' = Append(log, TenantLogEntry(c, AdjustActionType(action), p, l, l, quantity))
    /\ UNCHANGED <<salesVars, numVars>>

\* StockTransferSerializer.validate: the source row must exist and hold enough.
TransferInvalid(p, from, to, quantity) ==
    \/ from = to
    \/ ~stock[<<p, from>>].exists
    \/ stock[<<p, from>>].quantity < quantity

\* StockTransferView.post by a user of company c: the serializer, the check
\* of the two locations' company, the debit, get_or_create and the credit.
TenantTransfer(r, c, p, from, to, quantity) ==
    /\ TenantAccept(r)
    /\ IF TransferInvalid(p, from, to, quantity)
       THEN /\ st' = [st EXCEPT ![r] = Answered("transfer", c, p, from, to, quantity, "ValidationError")]
            /\ UNCHANGED <<stock, log>>
       ELSE IF LocationCompany(from) # c \/ LocationCompany(to) # c
       THEN /\ st' = [st EXCEPT ![r] = Answered("transfer", c, p, from, to, quantity, "InvalidReference")]
            /\ UNCHANGED <<stock, log>>
       ELSE LET debited == [stock EXCEPT ![<<p, from>>] = Row(@.quantity - quantity)]
                created == GetOrCreate(debited, <<p, to>>)
            IN /\ st' = [st EXCEPT ![r] = Answered("transfer", c, p, from, to, quantity, "OK")]
               /\ stock' = [created EXCEPT ![<<p, to>>] = Row(@.quantity + quantity)]
               /\ log' = Append(log, TenantLogEntry(c, "STOCK_TRANSFERRED", p, from, to, quantity))
    /\ UNCHANGED <<salesVars, numVars>>

\* PurchaseOrderViewSet.perform_create with PurchaseOrderDetailSerializer.create
\* by a user of company c: one line of product p, receiving location l.  Both
\* are primary-key fields over the whole table.
PurchaseCreate(r, c, p, l, quantity) ==
    /\ TenantAccept(r)
    /\ st' = [st EXCEPT ![r] = [TenantIdle EXCEPT !.pc = "po", !.call = "create", !.company = c,
                                                  !.product = p, !.location = l, !.to_location = l,
                                                  !.quantity_ordered = quantity,
                                                  !.status = "DRAFT", !.resp = "OK"]]
    /\ UNCHANGED <<stock, log, salesVars, numVars>>

\* PurchaseOrderViewSet.receive_items by a user of the order's company.
PurchaseReceive(r, quantity_received) ==
    /\ st[r].pc = "po"
    /\ IF st[r].status = "RECEIVED"
       THEN st' = [st EXCEPT ![r].call = "receive_items", ![r].resp = "AlreadyReceived"]
       ELSE st' = [st EXCEPT ![r].call = "receive_items", ![r].resp = "OK",
                             ![r].quantity = quantity_received,
                             ![r].status = IF quantity_received >= st[r].quantity_ordered THEN "RECEIVED"
                                           ELSE IF quantity_received > 0 THEN "PARTIALLY_RECEIVED"
                                           ELSE "CONFIRMED"]
    /\ UNCHANGED <<stock, log, salesVars, numVars>>

\* PurchaseOrderViewSet.add_to_inventory with PurchaseOrder.add_stock_to_inventory.
PurchaseAddStock(r) ==
    /\ st[r].pc = "po"
    /\ IF st[r].stock_added
       THEN /\ st' = [st EXCEPT ![r].call = "add_stock", ![r].resp = "AlreadyAdded"]
            /\ UNCHANGED stock
       ELSE IF st[r].status # "RECEIVED"
       THEN /\ st' = [st EXCEPT ![r].call = "add_stock", ![r].resp = "NotReceived"]
            /\ UNCHANGED stock
       ELSE LET k == <<st[r].product, st[r].location>>
                created == GetOrCreate(stock, k)
            IN /\ stock' = [created EXCEPT ![k] = Row(@.quantity + st[r].quantity)]
               /\ st' = [st EXCEPT ![r].call = "add_stock", ![r].resp = "OK",
                                   ![r].stock_added = TRUE, ![r].pc = "done"]
    /\ UNCHANGED <<log, salesVars, numVars>>

\* The rows reduce_stock iterates over:
\* Stock.objects.filter(product=p, product__company=c).
ReducibleKeys(c, p) ==
    {k \in StockKeys : k[1] = p /\ ProductCompany(p) = c /\ stock[k].exists}

\* order_by('-quantity'): every order of the rows with non-increasing quantity.
QueryOrders(c, p) ==
    LET keys == ReducibleKeys(c, p)
        n == Cardinality(keys)
    IN {o \in [1..n -> keys] :
           /\ \A i, j \in 1..n : i # j => o[i] # o[j]
           /\ \A i \in 1..n : i < n => stock[o[i]].quantity >= stock[o[i + 1]].quantity}

\* The loop of reduce_stock over the rows of one line item.
RECURSIVE ReduceRows(_, _, _, _)
ReduceRows(c, keys, s, remaining) ==
    IF keys = <<>> \/ remaining <= 0
    THEN [stock |-> s, remaining |-> remaining, entries |-> <<>>]
    ELSE LET k == Head(keys)
             have == s[k].quantity
             taken == Taken(have, remaining)
             rest == ReduceRows(c, Tail(keys), [s EXCEPT ![k] = Row(have - taken)], remaining - taken)
         IN [stock |-> rest.stock, remaining |-> rest.remaining,
             entries |-> <<TenantLogEntry(c, "STOCK_REMOVED", k[1], k[2], k[2], taken)>> \o rest.entries]

\* InvoiceViewSet.perform_create by a user of company c with status PAID and
\* one line of product p: Invoice.save calls reduce_stock.  The line's
\* product is a primary-key field over the whole table.
InvoicePaidReduce(r, c, p, quantity) ==
    /\ TenantAccept(r)
    /\ \E o \in QueryOrders(c, p) :
          LET res == ReduceRows(c, o, stock, quantity)
              short == IF res.remaining > 0
                       THEN <<TenantLogEntry(c, "STOCK_LEVEL_ADJUSTED", p, "none", "none", res.remaining)>>
                       ELSE <<>>
          IN /\ stock' = res.stock
             /\ log' = log \o res.entries \o short
    /\ st' = [st EXCEPT ![r] = Reduced([Answered("reduce_stock", c, p, "none", "none", quantity, "OK")
                                          EXCEPT !.status = "PAID"])]
    /\ UNCHANGED <<salesVars, numVars>>

\* Each company has counted its own product at its own main location.
TenantInitialStock ==
    [k \in StockKeys |-> IF k = <<"widget", "acme_main">> THEN Row(2)
                         ELSE IF k = <<"gadget", "globex_main">> THEN Row(1)
                         ELSE NoRow]

TenantInit ==
    /\ stock = TenantInitialStock
    /\ log = <<>>
    /\ st = [r \in TenantReqs |-> TenantIdle]
    /\ SalesUnused
    /\ NumberingUnused

TenantNext ==
    \E r \in TenantReqs, q \in 1..MaxQty :
        \/ \E c \in Companies, p \in Products, l \in TenantLocations :
              \/ \E action \in AdjustActions : TenantAdjust(r, c, p, l, action, q)
              \/ \E to \in TenantLocations : TenantTransfer(r, c, p, l, to, q)
              \/ PurchaseCreate(r, c, p, l, q)
        \/ PurchaseReceive(r, q)
        \/ PurchaseAddStock(r)
        \/ \E c \in Companies, p \in Products : InvoicePaidReduce(r, c, p, q)

SpecTenant == TenantInit /\ [][TenantNext]_vars

(***************************************************************************)
(* Invoice.reduce_stock on every stock table of the two companies: rows of *)
(* any product at any location, as adjustments, transfers and purchase     *)
(* receipts leave them, and one invoice line to reduce.                    *)
(***************************************************************************)
StoredStock == [StockKeys -> {NoRow} \cup {Row(n) : n \in 0..MaxQty}]

ReduceInit ==
    /\ stock \in StoredStock
    /\ log = <<>>
    /\ st = [r \in TenantReqs |-> TenantIdle]
    /\ SalesUnused
    /\ NumberingUnused

ReduceNext ==
    \E c \in Companies, p \in Products, q \in 1..MaxQty : InvoicePaidReduce(1, c, p, q)

SpecReduce == ReduceInit /\ [][ReduceNext]_vars

(***************************************************************************)
(* Purchase receiving: PurchaseOrderViewSet.receive_items, add_to_inventory*)
(* with PurchaseOrder.add_stock_to_inventory, and cancel, on one purchase  *)
(* order of two lines.  Here docs holds the order's row and its line rows, *)
(* st the purchasing request handlers and stock the rows of the ordered    *)
(* products at the receiving location.  Only receive_items opens a         *)
(* transaction (views.py:163); every other statement is its own.           *)
(***************************************************************************)
MaxOrderReq == 3        \* purchasing requests served in one behaviour

OrderReqs == 1..MaxOrderReq

OrderStatuses == {"DRAFT", "SENT", "CONFIRMED", "PARTIALLY_RECEIVED", "RECEIVED", "CANCELLED"}

ReceivingLocation == "acme_main"

OrderProducts == <<"widget", "bolt">>

OrderLineIds == 1..Len(OrderProducts)

OrderKey(i) == <<OrderProducts[i], ReceivingLocation>>

OrderRow(status, stock_added, received_date) ==
    [status |-> status, stock_added |-> stock_added, received_date |-> received_date]

OrderLine(product, quantity_ordered, quantity_received) ==
    [product |-> product, quantity_ordered |-> quantity_ordered,
     quantity_received |-> quantity_received]

\* The payloads of receive_items: a quantity_received for some of the lines.
Submissions ==
    UNION {[ids -> 0..MaxQty] : ids \in SUBSET OrderLineIds}

OrderIdle ==
    [pc |-> "new", call |-> "none", m |-> OrderRow("DRAFT", FALSE, "none"), ls |-> <<>>,
     sub |-> <<>>, i |-> 1, quantity |-> 0, resp |-> "none"]

OrderInFlight(r) == st[r].pc \notin {"new", "done"}

OrderRunning == {r \in OrderReqs : OrderInFlight(r)}

\* Requests are numbered in their order of arrival, and a worker must be free.
OrderAccept(r, cap) ==
    /\ st[r].pc = "new"
    /\ \A o \in OrderReqs : o < r => st[o].pc # "new"
    /\ Cardinality(OrderRunning) < cap

OrderAnswer(r, call, m, resp) ==
    [st EXCEPT ![r].pc = "done", ![r].call = call, ![r].m = m, ![r].resp = resp]

\* receive_items up to the transaction: get_object and the three refusals,
\* all on the instance just loaded.
ReceiveLoad(r, cap, sub) ==
    /\ OrderAccept(r, cap)
    /\ LET m == docs.po
       IN st' = IF m.status = "RECEIVED" THEN OrderAnswer(r, "receive_items", m, "AlreadyReceived")
                ELSE IF m.status = "CANCELLED" THEN OrderAnswer(r, "receive_items", m, "Cancelled")
                ELSE IF DOMAIN sub = {} THEN OrderAnswer(r, "receive_items", m, "NoLineItems")
                ELSE [st EXCEPT ![r].pc = "receive_apply", ![r].call = "receive_items",
                                ![r].m = m, ![r].sub = sub]
    /\ UNCHANGED <<stock, log, docs, salesVars, nr>>

\* The status receive_items derives from the lines after its writes.
ReceivedStatus(old, ls) ==
    IF \A i \in DOMAIN ls : ls[i].quantity_received >= ls[i].quantity_ordered THEN "RECEIVED"
    ELSE IF \E i \in DOMAIN ls : ls[i].quantity_received > 0 THEN "PARTIALLY_RECEIVED"
    ELSE "CONFIRMED"

\* The transaction of receive_items: the submitted lines are overwritten, the
\* status is derived from all lines and purchase_order.save() writes every
\* column of the instance loaded before the transaction.
ReceiveApply(r) ==
    /\ st[r].pc = "receive_apply"
    /\ LET sub == st[r].sub
           ls == [i \in OrderLineIds |->
                     IF i \in DOMAIN sub THEN [docs.lines[i] EXCEPT !.quantity_received = sub[i]]
                     ELSE docs.lines[i]]
           status == ReceivedStatus(st[r].m.status, ls)
           m == [st[r].m EXCEPT !.status = status,
                                !.received_date = IF status = "RECEIVED" THEN "today" ELSE @]
       IN /\ docs' = [po |-> m, lines |-> ls]
          /\ st' = OrderAnswer(r, "receive_items", m, "OK")
    /\ UNCHANGED <<stock, log, salesVars, nr>>

\* add_to_inventory: get_object, the two refusals of add_stock_to_inventory
\* and the evaluation of self.line_items.all().
AddLoad(r, cap) ==
    /\ OrderAccept(r, cap)
    /\ LET m == docs.po
       IN st' = IF m.stock_added THEN OrderAnswer(r, "add_to_inventory", m, "AlreadyAdded")
                ELSE IF m.status # "RECEIVED" THEN OrderAnswer(r, "add_to_inventory", m, "NotReceived")
                ELSE [st EXCEPT ![r].pc = "add_read", ![r].call = "add_to_inventory",
                                ![r].m = m, ![r].ls = docs.lines, ![r].i = 1]
    /\ UNCHANGED <<stock, log, docs, salesVars, nr>>

\* Stock.objects.get_or_create for the line the loop is at.
AddRead(r) ==
    /\ st[r].pc = "add_read"
    /\ LET k == OrderKey(st[r].i)
           created == GetOrCreate(stock, k)
       IN /\ stock' = created
          /\ st' = [st EXCEPT ![r].pc = "add_write", ![r].quantity = created[k].quantity]
    /\ UNCHANGED <<log, docs, salesVars, nr>>

\* stock.quantity += line_item.quantity_received; stock.save()
AddWrite(r) ==
    /\ st[r].pc = "add_write"
    /\ LET i == st[r].i
       IN /\ stock' = [stock EXCEPT ![OrderKey(i)] = Row(st[r].quantity + st[r].ls[i].quantity_received)]
          /\ st' = [st EXCEPT ![r].i = i + 1,
                              ![r].pc = IF i = Len(st[r].ls) THEN "add_flag" ELSE "add_read"]
    /\ UNCHANGED <<log, docs, salesVars, nr>>

\* self.stock_added = True; self.save(): every column of the loaded instance.
AddFlag(r) ==
    /\ st[r].pc = "add_flag"
    /\ LET m == [st[r].m EXCEPT !.stock_added = TRUE]
       IN /\ docs' = [docs EXCEPT !.po = m]
          /\ st' = OrderAnswer(r, "add_to_inventory", m, "OK")
    /\ UNCHANGED <<stock, log, salesVars, nr>>

\* cancel: get_object and the two refusals.
CancelLoad(r, cap) ==
    /\ OrderAccept(r, cap)
    /\ LET m == docs.po
       IN st' = IF m.status \in {"RECEIVED", "PARTIALLY_RECEIVED"}
                THEN OrderAnswer(r, "cancel", m, "ItemsReceived")
                ELSE IF m.stock_added THEN OrderAnswer(r, "cancel", m, "AlreadyAdded")
                ELSE [st EXCEPT ![r].pc = "cancel_save", ![r].call = "cancel", ![r].m = m]
    /\ UNCHANGED <<stock, log, docs, salesVars, nr>>

\* purchase_order.status = 'CANCELLED'; purchase_order.save()
CancelSave(r) ==
    /\ st[r].pc = "cancel_save"
    /\ LET m == [st[r].m EXCEPT !.status = "CANCELLED"]
       IN /\ docs' = [docs EXCEPT !.po = m]
          /\ st' = OrderAnswer(r, "cancel", m, "OK")
    /\ UNCHANGED <<stock, log, salesVars, nr>>

\* A handler fails between two statements (the database connection drops,
\* the worker is killed): what it has committed stays, an open transaction
\* is rolled back.
OrderAbort(r) ==
    /\ OrderInFlight(r)
    /\ st' = [st EXCEPT ![r].pc = "done", ![r].resp = "Failed"]
    /\ UNCHANGED <<stock, log, docs, salesVars, nr>>

\* One order, as PurchaseOrderDetailSerializer.create leaves it: DRAFT, two
\* lines of MaxQty units, nothing received; no stock of either product yet.
OrderInit ==
    /\ stock = [k \in {OrderKey(i) : i \in OrderLineIds} |-> NoRow]
    /\ log = <<>>
    /\ st = [r \in OrderReqs |-> OrderIdle]
    /\ docs = [po |-> OrderRow("DRAFT", FALSE, "none"),
               lines |-> [i \in OrderLineIds |-> OrderLine(OrderProducts[i], MaxQty, 0)]]
    /\ nr = <<>>
    /\ SalesUnused

OrderStep(r, cap) ==
    \/ \E sub \in Submissions : ReceiveLoad(r, cap, sub)
    \/ ReceiveApply(r)
    \/ AddLoad(r, cap)
    \/ AddRead(r)
    \/ AddWrite(r)
    \/ AddFlag(r)
    \/ CancelLoad(r, cap)
    \/ CancelSave(r)
    \/ OrderAbort(r)

OrderNext == \E r \in OrderReqs : OrderStep(r, MaxInFlight)

OrderNextSeq == \E r \in OrderReqs : OrderStep(r, 1)

SpecOrder == OrderInit /\ [][OrderNext]_vars

SpecOrderSeq == OrderInit /\ [][OrderNextSeq]_vars

(***************************************************************************)
(* Stock-ledger properties                                                 *)
(***************************************************************************)
\* The quantity the claimed deltas give: add +q, remove -q, set := q,
\* transfer -q at the source and +q at the destination.
DeltaApplied(q, e, l) ==
    CASE e.action_type = "STOCK_ADDED" /\ e.location = l -> q + e.quantity
      [] e.action_type = "STOCK_REMOVED" /\ e.location = l /\ e.invoice = 0 -> q - e.quantity
      [] e.action_type = "STOCK_SET" /\ e.location = l -> e.quantity
      [] e.action_type = "STOCK_TRANSFERRED" /\ e.location = l -> q - e.quantity
      [] e.action_type = "STOCK_TRANSFERRED" /\ e.to_location = l -> q + e.quantity
      [] OTHER -> q

RECURSIVE Replay(_, _)
Replay(n, l) == IF n = 0 THEN 0 ELSE DeltaApplied(Replay(n - 1, l), log[n], l)

StockQuiescent == StockRunning = {}

\* C5: after any sequential series of Adjust and Transfer calls the stored
\* quantity of every (product, location) equals the result of applying the
\* successful operations' deltas in order, and no quantity is negative.
C5_QuantityIsSumOfDeltas ==
    /\ \A l \in Locations : stock[l].quantity >= 0
    /\ \A l \in Locations : \A r \in StockReqs : l \in DOMAIN st[r].writes => st[r].writes[l] >= 0
    /\ StockQuiescent => \A l \in Locations : Qty(l) = Replay(Len(log), l)

\* Three calls have been applied, among them a remove and a transfer.
C5_Witness ==
    /\ Len(log) = 3
    /\ StockQuiescent
    /\ \E i, j \in 1..3 : /\ log[i].action_type = "STOCK_REMOVED" /\ log[i].quantity > 0
                          /\ log[j].action_type = "STOCK_TRANSFERRED"

\* C6: concurrent Adjust and Transfer calls on one Stock row are serialized:
\* a call commits only if every quantity it read is still the committed one
\* (no lost update, nothing admitted against a stale quantity commits).
C6_NoStaleCommit ==
    [][\A r \in StockReqs :
          (st[r].pc = "commit" /\ st'[r].pc = "done" /\ st'[r].resp = "OK")
              => \A l \in DOMAIN st[r].reads : st[r].reads[l] = Qty(l)]_vars

C8_TransferPreservesTotal ==
    [][\A r \in StockReqs :
          /\ (st[r].kind = "transfer" /\ st[r].pc = "commit" /\ st'[r].pc = "done")
                => /\ Qty(st[r].location)' = Qty(st[r].location) - st[r].quantity
                   /\ Qty(st[r].to_location)' = Qty(st[r].to_location) + st[r].quantity
          /\ (st'[r].kind = "transfer" /\ st'[r] # st[r] /\ st'[r].pc # "done")
                => stock' = stock]_vars

(***************************************************************************)
(* Payment and stock-reduction properties                                  *)
(***************************************************************************)
\* Total quantity the audit log records under one action type for an invoice.
RECURSIVE Logged(_, _, _)
Logged(n, action_type, inv) ==
    IF n = 0 THEN 0
    ELSE (IF log[n].action_type = action_type /\ log[n].invoice = inv THEN log[n].quantity ELSE 0)
         + Logged(n - 1, action_type, inv)

\* Units of an invoice's line items that reduce_stock has accounted for,
\* taken from stock or reported short.
Reduced_For(inv) ==
    Logged(Len(log), "STOCK_REMOVED", inv) + Logged(Len(log), "STOCK_LEVEL_ADJUSTED", inv)

\* C1: under any interleaving of RecordPayment calls, and whether the
\* trigger is conversion or payment completion, the stock of an invoice's
\* line items is reduced at most once.
C1_StockReducedAtMostOnce ==
    \A i \in DOMAIN invoices : Reduced_For(i) <= SumLineQuantities(invlines[i])

\* C2: an accepted quote converted to an invoice and then paid by payments
\* recorded one after another has its stock reduced exactly once in total.
C2_ConvertThenPayReducesOnce ==
    PayQuiescent =>
        \A i \in DOMAIN invoices :
            invoices[i].quote # 0 =>
                /\ Reduced_For(i) = SumLineQuantities(invlines[i])
                /\ invoices[i].stock_reduced

\* A converted invoice has been paid in full by two successive payments.
C2_Witness ==
    /\ PayQuiescent
    /\ \E i \in DOMAIN invoices :
          /\ invoices[i].quote # 0
          /\ invoices[i].status = "PAID"
          /\ \E a, b \in DOMAIN payments : a # b /\ payments[a].invoice = i /\ payments[b].invoice = i

\* C4: once the payment creations on an invoice have run, in any order or
\* interleaving, its amount_paid equals the sum of its payments' amounts.
C4_AmountPaidIsSumOfPayments ==
    PayQuiescent =>
        \A i \in DOMAIN invoices : invoices[i].amount_paid = SumPayments(Len(payments), i)

\* C9: a RecordPayment whose amount exceeds the invoice's amount_due is
\* rejected with PaymentExceedsOutstanding, and a rejected call creates no
\* payment and leaves every invoice as it was.
C9_ExcessPaymentRejected ==
    [][\A r \in PayReqs :
          (pr[r].phase = "new" /\ pr'[r].kind = "payment")
              => /\ pr'[r].amount > AmountDue(invoices[pr'[r].inv])
                    => pr'[r].resp = "PaymentExceedsOutstanding"
                 /\ pr'[r].resp = "PaymentExceedsOutstanding"
                    => /\ pr'[r].phase = "done"
                       /\ payments' = payments
                       /\ invoices' = invoices
                       /\ stock' = stock]_vars

\* A payment was refused on an invoice that is PAID with nothing due.
C9_Witness ==
    \E r \in PayReqs :
        /\ pr[r].resp = "PaymentExceedsOutstanding"
        /\ pr[r].amount = 1
        /\ invoices[pr[r].inv].status = "PAID"
        /\ AmountDue(invoices[pr[r].inv]) = 0

\* C10: a RecordPayment that brings amount_paid to total_amount or more on
\* an invoice whose stock was not reduced leaves it PAID, with stock_reduced
\* set and paid_date set; a paid_date once set is not changed by a later save.
C10_FullPaymentMarksPaid ==
    [][/\ \A r \in PayReqs :
             ( /\ pr[r].phase = "run" /\ pr'[r].phase = "done"
               /\ pr[r].kind = "payment" /\ pr'[r].resp = "OK"
               /\ pr'[r].m.amount_paid >= pr'[r].m.total_amount
               /\ ~pr[r].loaded_reduced )
                 => /\ invoices'[pr[r].inv].status = "PAID"
                    /\ invoices'[pr[r].inv].stock_reduced
                    /\ invoices'[pr[r].inv].paid_date # 0
       /\ \A i \in DOMAIN invoices :
             invoices[i].paid_date # 0 => invoices'[i].paid_date = invoices[i].paid_date]_vars

(***************************************************************************)
(* Document-numbering properties                                           *)
(***************************************************************************)
\* C3: however the document-number issuances of one series and one tenant
\* interleave, the numbers of the committed documents are pairwise
\* distinct, as stored strings and as the integers they carry.
C3_IssuedNumbersDistinct ==
    \A s \in Series : \A i, j \in DOMAIN docs[s] :
        (i # j /\ docs[s][i].company = docs[s][j].company)
            => /\ docs[s][i].number # docs[s][j].number
               /\ ParseNumber(docs[s][i].number) # ParseNumber(docs[s][j].number)

\* Two handlers of one tenant raced for the same number of a series: both
\* committed a document, one of them after a refused attempt.
C3_Witness ==
    \E a, b \in NumReqs :
        /\ a # b
        /\ nr[a].resp = "OK" /\ nr[b].resp = "OK"
        /\ SeriesOf(nr[a].kind) = SeriesOf(nr[b].kind)
        /\ nr[a].company = nr[b].company
        /\ nr[b].attempt > 0

(***************************************************************************)
(* Status-derivation properties                                            *)
(***************************************************************************)
\* The status the specification derives: nothing paid keeps DRAFT, else
\* UNPAID or OVERDUE by due date; paid in full is PAID; otherwise
\* PARTIALLY_PAID or OVERDUE by due date.
DerivedStatus(status, amount_paid, total_amount, due_date, today) ==
    IF amount_paid = 0
    THEN IF status = "DRAFT" THEN "DRAFT"
         ELSE IF due_date < today THEN "OVERDUE" ELSE "UNPAID"
    ELSE IF amount_paid >= total_amount THEN "PAID"
    ELSE IF due_date < today THEN "OVERDUE" ELSE "PARTIALLY_PAID"

\* C11: a call of update_status leaves exactly the status the specification
\* derives from (amount_paid, total_amount, due_date, today), changes none
\* of these inputs, and deriving again from the result gives the same status.
C11_StatusIsDerived ==
    [][clock' # clock =>
          LET m == invoices[2]
              n == invoices'[2]
          IN /\ n.status = DerivedStatus(m.status, m.amount_paid, m.total_amount, m.due_date, Today)
             /\ n.amount_paid = m.amount_paid
             /\ n.total_amount = m.total_amount
             /\ n.due_date = m.due_date
             /\ UpdateStatus(n, clock').m.status = n.status]_vars

\* An invoice stored UNPAID with nothing paid and a due date of yesterday
\* is OVERDUE after update_status has run on it.
C11_Witness ==
    /\ Len(invoices) = 2
    /\ clock > MaxDerive
    /\ invoices[1].status = "UNPAID"
    /\ invoices[1].amount_paid = 0
    /\ invoices[1].total_amount = MaxAmount + 1
    /\ invoices[1].due_date < Today
    /\ invoices[2].status = "OVERDUE"

\* C12: in every reachable state an invoice stored as PAID has amount_paid
\* >= total_amount, and one stored as PARTIALLY_PAID has
\* 0 < amount_paid < total_amount.
C12_StatusNeverFreelySet ==
    \A i \in DOMAIN invoices :
        /\ invoices[i].status = "PAID" => invoices[i].amount_paid >= invoices[i].total_amount
        /\ invoices[i].status = "PARTIALLY_PAID"
              => (0 < invoices[i].amount_paid /\ invoices[i].amount_paid < invoices[i].total_amount)

\* C13: no step of any operation writes an invoice's stock_reduced flag
\* back to false once it is true.
C13_StockReducedNeverReset ==
    [][\A i \in DOMAIN invoices : invoices[i].stock_reduced => invoices'[i].stock_reduced]_vars

\* The largest number a tenant holds in a series, 0 when it holds none.
OwnLastNumber(series, company) ==
    IF RowsOf(series, company) = {} THEN 0
    ELSE LET ns == {ParseNumber(docs[series][i].number) : i \in RowsOf(series, company)}
         IN CHOOSE n \in ns : \A o \in ns : o <= n

\* C14: each tenant's series is its own: a request that issues a number
\* ends successfully with the tenant's own next value, whatever numbers the
\* other tenant holds in the series.
C14_TenantSeriesIndependent ==
    [][\A r \in NumReqs :
          (nr[r].pc # "done" /\ nr'[r].pc = "done")
              => /\ nr'[r].resp = "OK"
                 /\ ParseNumber(nr'[r].number)
                      = OwnLastNumber(SeriesOf(nr'[r].kind), nr'[r].company) + 1]_vars

\* C15: within a tenant's series no document is committed with a number
\* lower than that of a document committed before it.
C15_NumbersNonDecreasing ==
    \A s \in Series : \A i, j \in DOMAIN docs[s] :
        (i < j /\ docs[s][i].company = docs[s][j].company)
            => ParseNumber(docs[s][i].number) <= ParseNumber(docs[s][j].number)

\* C16: however many callers create quotes for one tenant at the same
\* time, none of them ends with a number-generation failure: every finished
\* quote creation has committed its quote.
C16_EveryCallerNumbered ==
    \A r \in DOMAIN nr :
        (nr[r].kind = "quote_create" /\ nr[r].pc = "done") => nr[r].resp = "OK"

(***************************************************************************)
(* Quote properties                                                        *)
(***************************************************************************)
\* C19: a conversion request is refused with QuoteNotAccepted unless the
\* quote is ACCEPTED and with AlreadyConverted when an invoice references
\* it, a refusal changes nothing, and at most one invoice ever references a
\* given quote, so its stock is reduced for at most one invoice.
C19_ConvertedAtMostOnce ==
    /\ \A i, j \in DOMAIN invoices :
          (invoices[i].quote # 0 /\ invoices[i].quote = invoices[j].quote) => i = j
    /\ \A r \in DOMAIN pr :
          (pr[r].kind = "convert" /\ pr[r].phase # "new")
              => /\ pr[r].q.status # "ACCEPTED" => pr[r].resp = "QuoteNotAccepted"
                 /\ pr[r].resp \in {"QuoteNotAccepted", "AlreadyConverted"} => pr[r].inv = 0

\* The status changes the specification allows a quote.
QuoteEdges ==
    {<<"DRAFT", "SENT">>, <<"SENT", "ACCEPTED">>, <<"SENT", "REJECTED">>,
     <<"ACCEPTED", "INVOICED">>}

\* C17: a quote's status changes only along DRAFT->SENT, SENT->ACCEPTED,
\* SENT->REJECTED and ACCEPTED->INVOICED, and a quote becomes (or is
\* created) INVOICED only in a step of a conversion request.
C17_QuoteStatusEdges ==
    [][/\ \A q \in DOMAIN quotes :
             quotes'[q].status # quotes[q].status
                 => /\ <<quotes[q].status, quotes'[q].status>> \in QuoteEdges
                    /\ quotes'[q].status = "INVOICED"
                          => \E r \in DOMAIN pr : pr[r].kind = "convert" /\ pr'[r] # pr[r]
       /\ \A q \in (DOMAIN quotes') \ (DOMAIN quotes) : quotes'[q].status # "INVOICED"]_vars

\* C18: once a quote is INVOICED no step changes its status, its line
\* items or its subtotal, tax and total.
C18_InvoicedQuoteImmutable ==
    [][\A q \in DOMAIN quotes :
          quotes[q].status = "INVOICED"
              => /\ quotes'[q].status = "INVOICED"
                 /\ qlines'[q] = qlines[q]
                 /\ quotes'[q].subtotal = quotes[q].subtotal
                 /\ quotes'[q].tax_amount = quotes[q].tax_amount
                 /\ quotes'[q].total_amount = quotes[q].total_amount]_vars

(***************************************************************************)
(* Tenancy properties                                                      *)
(***************************************************************************)
StockCalls == {"adjust", "transfer", "add_stock", "reduce_stock"}

\* The call names a product or a location of another company than the
\* caller's (for add_stock and reduce_stock, than the document's).
ForeignReference(d) ==
    \/ ProductCompany(d.product) # d.company
    \/ d.call \in {"adjust", "transfer", "add_stock"} /\ LocationCompany(d.location) # d.company
    \/ d.call = "transfer" /\ LocationCompany(d.to_location) # d.company

\* C20: Adjust, Transfer, BulkReduce and BulkIncrease change no Stock row
\* whose product or location belongs to another company than the caller's
\* (the document's company for add_stock_to_inventory and reduce_stock), and
\* a call that names such a product or location is rejected and changes
\* neither the stock table nor the audit log.  Any rejection is accepted
\* here, whatever the error is called.
C20_NoCrossTenantStockChange ==
    [][\A r \in TenantReqs :
          (st'[r] # st[r] /\ st'[r].call \in StockCalls) =>
              LET d == st'[r]
              IN /\ \A k \in StockKeys :
                        stock'[k] # stock[k] =>
                            ProductCompany(k[1]) = d.company /\ LocationCompany(k[2]) = d.company
                 /\ ForeignReference(d) =>
                        /\ d.resp \notin {"OK", "InsufficientStock"}
                        /\ stock' = stock
                        /\ log' = log]_vars

(***************************************************************************)
(* Purchase-receiving properties                                           *)
(***************************************************************************)
\* The calls of add_to_inventory that have added line i to stock.
AddedBy(i) == {r \in OrderReqs : st[r].call = "add_to_inventory" /\ st[r].i > i}

\* C21: each line's quantity_received is added to stock by at most one call
\* of add_to_inventory, and a call that added stock was accepted on a
\* RECEIVED order whose stock_added was false.
C21_StockAddedOnce ==
    \A i \in OrderLineIds :
        /\ Cardinality(AddedBy(i)) <= 1
        /\ \A r \in AddedBy(i) : st[r].m.status = "RECEIVED"

\* The status the specification gives an order after a receipt.
SpecifiedStatus(old, ls) ==
    IF \A i \in DOMAIN ls : ls[i].quantity_received >= ls[i].quantity_ordered THEN "RECEIVED"
    ELSE IF \E i \in DOMAIN ls : ls[i].quantity_received > 0 THEN "PARTIALLY_RECEIVED"
    ELSE old

\* C22: when receive_items has applied its lines, every submitted line holds
\* the submitted quantity_received, and the order is RECEIVED if every line
\* is received in full, PARTIALLY_RECEIVED if some line has received
\* something, and keeps the status it had before the call otherwise.
C22_ReceiptDerivesStatus ==
    [][\A r \in OrderReqs :
          (st[r].pc = "receive_apply" /\ st'[r].resp = "OK") =>
              /\ \A i \in DOMAIN st[r].sub : docs'.lines[i].quantity_received = st[r].sub[i]
              /\ docs'.po.status = SpecifiedStatus(docs.po.status, docs'.lines)]_vars

\* C23: a receive_items call changes no line and neither the status nor the
\* received_date of an order that is RECEIVED or CANCELLED.
C23_ClosedOrderNotReceived ==
    [][(docs.po.status \in {"RECEIVED", "CANCELLED"} /\
        \E r \in OrderReqs : st[r].call = "receive_items" /\ st'[r] # st[r]) =>
           /\ docs'.lines = docs.lines
           /\ docs'.po.status = docs.po.status
           /\ docs'.po.received_date = docs.po.received_date]_vars

\* C24: a receive_items or add_to_inventory call that succeeded has left at
\* least one audit log entry, and add_to_inventory one entry for each line it
\* added.
C24_PurchaseCallsLogged ==
    \A r \in OrderReqs :
        (st[r].resp = "OK" /\ st[r].call \in {"receive_items", "add_to_inventory"}) =>
            /\ Len(log) >= 1
            /\ st[r].call = "add_to_inventory" => Len(log) >= Len(st[r].ls)

\* C25: an add_to_inventory call that failed part-way has left none of its
\* stock increments committed.
C25_FailedCallLeavesNothing ==
    \A r \in OrderReqs :
        (st[r].resp = "Failed" /\ st[r].call = "add_to_inventory") => st[r].i = 1

(***************************************************************************)
(* Stock-reduction properties                                              *)
(***************************************************************************)
RECURSIVE SumQuantities(_, _)
SumQuantities(s, keys) ==
    IF keys = {} THEN 0
    ELSE LET k == CHOOSE x \in keys : TRUE
         IN s[k].quantity + SumQuantities(s, keys \ {k})

Least(a, b) == IF a <= b THEN a ELSE b

\* C26: reduce_stock for a line needing q units of a product of which the
\* company's rows hold T in total answers OK and sets stock_reduced, takes
\* exactly min(q, T) units from those rows and touches no other row, leaves
\* no quantity negative, visits the rows in descending order of quantity,
\* and logs one shortfall of q - T when q > T and none otherwise.
C26_ReduceTakesWhatIsThere ==
    [][\A r \in TenantReqs :
          (st[r].pc = "new" /\ st'[r].call = "reduce_stock") =>
              LET d == st'[r]
                  keys == ReducibleKeys(d.company, d.product)
                  T == SumQuantities(stock, keys)
                  q == d.quantity
                  new == SubSeq(log', Len(log) + 1, Len(log'))
                  removed == SelectSeq(new, LAMBDA e : e.action_type = "STOCK_REMOVED")
                  short == SelectSeq(new, LAMBDA e : e.action_type = "STOCK_LEVEL_ADJUSTED")
              IN /\ d.resp = "OK" /\ d.stock_reduced
                 /\ T - SumQuantities(stock', keys) = Least(q, T)
                 /\ \A k \in StockKeys : stock'[k].quantity >= 0 /\ (k \notin keys => stock'[k] = stock[k])
                 /\ \A i, j \in DOMAIN removed :
                        i < j => stock[<<removed[i].product, removed[i].location>>].quantity
                                    >= stock[<<removed[j].product, removed[j].location>>].quantity
                 /\ IF q > T THEN Len(short) = 1 /\ short[1].quantity = q - T
                    ELSE short = <<>>]_vars

\* A reduction has drained one row and taken the rest from a second one.
C26_Witness ==
    \E r \in TenantReqs, i, j \in DOMAIN log :
        /\ st[r].call = "reduce_stock" /\ st[r].stock_reduced
        /\ i < j
        /\ log[i].action_type = "STOCK_REMOVED" /\ log[i].quantity > 0
        /\ log[j].action_type = "STOCK_REMOVED" /\ log[j].quantity > 0
        /\ log[i].location # log[j].location

(***************************************************************************)
(* Document-total properties                                               *)
(***************************************************************************)
RECURSIVE LineSum(_)
LineSum(ls) == IF ls = <<>> THEN 0 ELSE Head(ls).line_total + LineSum(Tail(ls))

\* stored is n / d to the nearest whole unit.
NearestUnit(stored, n, d) == 2 * (stored * d - n) <= d /\ 2 * (n - stored * d) <= d

LineTotalStored(l) ==
    IF l.discount_type = "PERCENTAGE"
    THEN NearestUnit(l.line_total, l.quantity * l.unit_price * (100 - l.discount_value), 100)
    ELSE l.line_total = l.quantity * l.unit_price - l.discount_value

TotalsStored(m, ls) ==
    /\ \A i \in DOMAIN ls : LineTotalStored(ls[i])
    /\ m.subtotal = LineSum(ls)
    /\ NearestUnit(m.tax_amount, m.subtotal * m.tax_rate, 100)
    /\ m.total_amount = m.subtotal + m.tax_amount

\* C27: once a create, update, duplication or conversion of a quote or an
\* invoice has ended, the stored subtotal is the sum of the line totals of
\* its current line items, tax_amount is subtotal x tax_rate / 100 and
\* total_amount is subtotal + tax_amount, each line total being
\* quantity x unit_price less the discount (to the stored precision).
C27_TotalsFollowLines ==
    PayQuiescent =>
        /\ \A q \in DOMAIN quotes : TotalsStored(quotes[q], qlines[q])
        /\ \A i \in DOMAIN invoices : TotalsStored(invoices[i], invlines[i])

\* An invoice update that replaced the line items of a taxed invoice by a
\* discounted line, after a quote with tax was created.
C27_Witness ==
    /\ PayQuiescent
    /\ \E r \in PayReqs :
          /\ pr[r].kind = "update" /\ pr[r].resp = "OK" /\ pr[r].sub # <<>>
          /\ invlines[pr[r].inv] # <<>>
          /\ invlines[pr[r].inv][1].discount_value > 0
          /\ invoices[pr[r].inv].tax_amount > 0
    /\ \E q \in DOMAIN quotes : quotes[q].tax_amount > 0

(***************************************************************************)
(* Line-item snapshot properties                                           *)
(***************************************************************************)
SameSnapshot(a, b) ==
    /\ a.product_name = b.product_name
    /\ a.product_sku = b.product_sku
    /\ a.unit_price = b.unit_price

SnapshotsKept(copy, original) ==
    /\ Len(copy) = Len(original)
    /\ \A i \in DOMAIN original : SameSnapshot(copy[i], original[i])

\* C28: a line item copied by quote duplication or by quote-to-invoice
\* conversion has the product_name, product_sku and unit_price of the line
\* item it is copied from, whatever the Product row holds by then, also
\* when the copied unit_price is 0 or the copied SKU is empty.
C28_CopiesKeepSnapshot ==
    [][\A r \in PayReqs :
          /\ (pr[r].phase = "new" /\ pr'[r].kind = "quote_duplicate")
                => \E qid \in DOMAIN quotes : SnapshotsKept(qlines'[pr'[r].quote], qlines[qid])
          /\ (At(r, "cv_lines") /\ pr'[r] # pr[r])
                => SnapshotsKept(invlines'[pr[r].inv], qlines[pr[r].quote])]_vars

(***************************************************************************)
(* Invoice balance properties                                              *)
(***************************************************************************)
\* C29: in every reachable state an invoice's amount_paid is at most its
\* total_amount, so amount_due is never negative, also after RecordPayment
\* calls that ran at the same time.
C29_NeverOverpaid ==
    \A i \in DOMAIN invoices : invoices[i].amount_paid <= invoices[i].total_amount

\* C30: once the handlers have ended, every invoice stored as PAID has
\* stock_reduced set, whether payment, an update or the creation of the
\* invoice made it PAID.
C30_PaidMeansReduced ==
    PayQuiescent => \A i \in DOMAIN invoices : invoices[i].status = "PAID" => invoices[i].stock_reduced

====
